---------------------------- MODULE Spec2Model ----------------------------
(***************************************************************************)
(* Layered drawing-canvas engine of the layout assistant.                  *)
(*                                                                         *)
(* DrawingCanvas (src/components/DrawingCanvas.tsx): layers, per-layer     *)
(* history, pointer state machine, vanishing points, persistence and the   *)
(* debounced emission to the host application (src/App.tsx).               *)
(* ContiEditorModal (src/unnamed/part_001) and ReferenceImageEditorModal   *)
(* (DrawingCanvas.tsx): the two single-surface editors and their history.  *)
(*                                                                         *)
(* One action is one event handler, effect or timer callback, taken on the *)
(* committed React state, together with the render and the effects that    *)
(* follow it.  A raster is the set of painted pixels of a surface; a       *)
(* coordinate is the pixel it falls on.                                    *)
(***************************************************************************)
EXTENDS Integers, Sequences, FiniteSets, TLC

(* ----------------------------- bounds --------------------------------- *)
NumPixels == 2      \* pixels (and pointer coordinates) of a surface
MaxClock == 3       \* layer ids handed out by Date.now()
MaxSamples == 2     \* samples kept for one brush stroke
MaxDowns == 4       \* pointer-downs explored
MaxUndoDowns == 2   \* pointer-downs explored together with undo and redo
MaxCapKeys == 2     \* structural inputs explored before a history is filled
MaxDocKeys == 3     \* inputs explored with the storage and the host
MaxCropDowns == 1   \* strokes explored in the storyboard editor
MaxCropKeys == 2    \* crop drags explored in the storyboard editor
MaxPreviewDowns == 1 \* strokes explored while the preview is watched
MaxPreviewKeys == 2 \* other inputs explored while the preview is watched
MaxCompositeKeys == 6 \* layer panel and reference inputs explored
MaxEmitDowns == 1 \* strokes explored while the emission timer is watched
MaxEmitKeys == 3 \* other inputs explored while the emission timer is watched
MaxPointDowns == 3 \* clicks of the point tools explored
MaxPointKeys == 2 \* renames, new layers, point drags and resize drags explored
MaxViewDowns == 3 \* pointer-downs explored while the view is changed
MaxViewKeys == 2 \* view operations explored
BoxSize == 2 \* rows of a canvas scanned for its bounding box
MantissaBits == 4 \* significant bits kept by the rounded arithmetic
MaxCoordKeys == 2 \* view operations explored before pointer coordinates
MaxZoomKeys == 9 \* zoom steps explored in the canvas and the storyboard editor
MaxCancelDowns == 1 \* strokes explored in the editor while crops are cancelled
MaxCancelKeys == 2 \* crop drags explored while crops are cancelled
MaxTouchDowns == 3 \* touch starts explored
MaxTouchZoom == 4 \* zoom below which a pinch is explored
MaxRefDowns == 1 \* strokes drawn before the global reference is changed
MaxRefKeys == 2 \* changes of the global reference explored
MaxDragDowns == 2 \* presses explored while vanishing points are dragged
MaxOutDowns == 1       \* strokes before and between crops
MaxOutKeys == 2        \* crop drags
MaxCropOutside == 2    \* half pixels a crop drag may end beyond the canvas
MaxEscapeDowns == 3 \* shapes begun while Escape is explored
MaxEscapeKeys == 2 \* presses of Escape explored
MaxCurveDowns == 4 \* clicks of the curve tool explored on the canvas
MaxCurveKeys == 4 \* clicks of the curve tool explored in the storyboard editor
MaxHistoryDowns == 2 \* strokes explored on the layers and in the editor
MaxHistoryKeys == 1 \* layers added to the first one
MaxLegacyKeys == 3 \* renames, stored documents and reloads explored
MaxDecodeDowns == 1 \* strokes explored before an image fails to decode
MaxDecodeKeys == 3 \* uploads, edit sessions and reloads explored with them
MaxResizeKeys == 1  \* resize drags explored
MaxResizeDowns == 1 \* pointer-downs explored with the resize drags

(* ------------------------ program constants --------------------------- *)
MAX_HISTORY_STATES == 30
CONTI_MAX_HISTORY_STATES == 50
REF_MAX_HISTORY == 50
MIN_CANVAS_DIM == 200

Null == 0
NoTimer == -1
Pixels == 1..NumPixels
Blank == {}
Tools == {"pen", "marker", "eraser", "line", "curve", "ellipse", "perspective"}
PointTools == {"point_placer", "point_deleter"}
BrushTools == {"pen", "eraser", "marker"}
DrawTools == {"pen", "marker", "eraser", "ellipse", "line", "curve"}
\* what the pointer event is: mouse buttons 0, 1, 2, Alt + button 2, and a
\* touch event with one or with two touch points
Pointers == {"left", "middle", "right", "altRight", "touch1", "touch2"}
Urls == {1}
\* images that fail to decode (img.onerror)
BadUrls == {2}
DefaultDims == [width |-> 1000, height |-> 619]
\* resize handles, and the pointer displacements of a resize drag
Directions == {"r", "b", "br"}
Drags == {-900, 0, 100}

VARIABLES
    layers,            \* layers: ids, bottom first
    activeLayerId,
    layerCounter,
    clock,             \* Date.now()
    canvas,            \* canvasRefs: raster of every mounted layer canvas
    history,           \* history: layer id -> [stack, index]
    canvasDimensions,
    tool,
    isDrawing,
    pointsRef,
    lineStartPoint,
    ellipseStartPoint,
    curvePoints,
    isPanning,
    isScrubbyZooming,
    vanishingPoints,
    activeVPId,
    draggingVPId,
    globalReference,   \* [url, isVisible]; url Null when there is none
    editBase,          \* Null or the edit-base image url
    loadedStateRef,
    resizeDataRef,
    storage,           \* localStorage['character-poser-canvas']
    saveTimer,         \* saveTimeoutRef is pending
    emitTimer,         \* onCanvasChangeTimeoutRef is pending
    hostTimer,         \* App.canvasChangeTimeout: NoTimer or its payload
    hostGlobalRef,     \* App.globalReferenceImage
    hostEditBase,      \* App.editBaseImage
    initPending,       \* the mount / initialGlobalReferenceUrl effect is due
    editPending,       \* the editBaseImageUrl effect is due
    seedTimers,        \* setTimeout(0) callbacks seeding a history
    mergeTimer,        \* the closure of mergeLayerDown's timeout
    conti,             \* ContiEditorModal
    refEd,             \* ReferenceImageEditorModal
    canvasSize,        \* width and height of every mounted layer canvas
    meta,              \* layer id -> name, visibility, opacity, blend mode,
                       \* anchor points (the other fields of a Layer)
    draggingPoint,     \* the anchor point being dragged
    preview,           \* what the preview canvas shows, bottom first
    view,              \* zoom, pan, rotation
    orphanEmit,        \* emission timers left by unmounted canvases
    editBaseVisible,   \* editBase.isVisible
    lastTouchesRef,    \* touch points of the last touch event, 0 for none
    last,              \* the last handler that ran, with the state before it
    opPushes,          \* snapshots pushed since the current draw began
    downs,             \* pointer-downs handled so far
    keys,              \* other inputs counted so far
    scen               \* draw / undo / redo bookkeeping of the active layer

pointerVars == <<isDrawing, pointsRef, lineStartPoint, ellipseStartPoint,
                 curvePoints, isPanning, isScrubbyZooming>>
drawVars == <<tool, pointerVars>>
vpVars == <<vanishingPoints, activeVPId, draggingVPId>>
layerVars == <<layers, activeLayerId, layerCounter, clock, canvas, history>>
docVars == <<canvasDimensions, globalReference, editBase, loadedStateRef,
             resizeDataRef>>
hostVars == <<hostTimer, hostGlobalRef, hostEditBase>>
timerVars == <<storage, saveTimer, emitTimer, hostVars, initPending,
               editPending, seedTimers, mergeTimer>>
editorVars == <<conti, refEd>>
idleExt == <<draggingPoint, view, orphanEmit, editBaseVisible,
            lastTouchesRef>>
extVars == <<canvasSize, meta, preview, idleExt>>
ghostVars == <<last, opPushes, downs, keys, scen>>
vars == <<layerVars, drawVars, vpVars, docVars, timerVars, editorVars,
          extVars, ghostVars>>

(* ------------------------------ helpers ------------------------------- *)
Range(s) == {s[i] : i \in 1..Len(s)}

IndexOf(s, x) == IF x \in Range(s)
                 THEN CHOOSE i \in 1..Len(s) : s[i] = x /\ \A j \in 1..(i-1) : s[j] /= x
                 ELSE 0

InsertAt(s, i, x) == SubSeq(s, 1, i - 1) \o <<x>> \o SubSeq(s, i, Len(s))

Filter(s, x) == SelectSeq(s, LAMBDA e : e /= x)

EmptyFn == [k \in {} |-> Blank]

Without(f, k) == [j \in DOMAIN f \ {k} |-> f[j]]

HistoryState(stack, index) == [stack |-> stack, index |-> index]

EmptyHistory == HistoryState(<<>>, -1)

NoGlobalRef == [url |-> Null, isVisible |-> FALSE]

NoLoaded == [present |-> FALSE, layers |-> <<>>, sketches |-> EmptyFn,
             globalRef |-> NoGlobalRef, meta |-> EmptyFn]

NoStorage == [present |-> FALSE, layers |-> <<>>, layerSketches |-> EmptyFn,
              globalReference |-> NoGlobalRef, vanishingPoints |-> <<>>,
              canvasDimensions |-> DefaultDims, layerCounter |-> 1,
              meta |-> EmptyFn]

NoResize == [present |-> FALSE, layerData |-> EmptyFn, prev |-> DefaultDims,
             direction |-> "none", globalRef |-> NoGlobalRef,
             editBaseRef |-> Null, editBaseVisible |-> TRUE]

NoDrag == [present |-> FALSE, layerId |-> Null, pointId |-> Null]
NoMerge == [present |-> FALSE, id |-> Null, bottom |-> Null,
            currentActive |-> Null, layers |-> <<>>, n |-> 0]

Max(a, b) == IF a > b THEN a ELSE b

RECURSIVE GCD(_, _)
RECURSIVE RPow(_, _)
RECURSIVE Pow2(_)
RECURSIVE Exponent(_)
RECURSIVE Nearest(_, _, _, _, _)
RECURSIVE ScanPixels(_, _, _)
RECURSIVE ScanLayers(_, _, _, _)
GCD(a, b) == IF b = 0 THEN a ELSE GCD(b, a % b)

\* a coordinate is an exact non-negative fraction n / d in lowest terms
Rat(n, d) == LET g == GCD(n, d) IN [n |-> n \div g, d |-> d \div g]

\* arithmetic on fractions, common factors taken out before multiplying;
\* the divisor of RDiv is positive
RAdd(a, b) == LET g == GCD(a.d, b.d)
              IN Rat(a.n * (b.d \div g) + b.n * (a.d \div g),
                     (a.d \div g) * b.d)
RSub(a, b) == RAdd(a, [n |-> 0 - b.n, d |-> b.d])
RMul(a, b) == LET g == GCD(a.n, b.d)
                  h == GCD(b.n, a.d)
              IN Rat((a.n \div g) * (b.n \div h), (a.d \div h) * (b.d \div g))
RDiv(a, b) == RMul(a, [n |-> b.d, d |-> b.n])
RLess(a, b) == LET g == GCD(a.d, b.d)
               IN a.n * (b.d \div g) < b.n * (a.d \div g)
RPow(a, k) == IF k = 0 THEN Rat(1, 1) ELSE RMul(a, RPow(a, k - 1))

RAbs(a) == IF a.n < 0 THEN [n |-> 0 - a.n, d |-> a.d] ELSE a

\* a number of the program is a binary floating-point number: the result of
\* an operation is the exact result rounded to the nearest number that has
\* MantissaBits significant bits, a tie going to the even one
Pow2(k) == IF k = 0 THEN 1 ELSE 2 * Pow2(k - 1)
\* the e for which q / 2^e has MantissaBits bits before the point, q > 0
Exponent(q) ==
    CHOOSE e \in {IF ~RLess(v, Rat(Pow2(MantissaBits), 1))
                  THEN Exponent(RDiv(v, Rat(2, 1))) + 1
                  ELSE IF RLess(v, Rat(Pow2(MantissaBits - 1), 1))
                  THEN Exponent(RMul(v, Rat(2, 1))) - 1
                  ELSE 0 : v \in {q}} : TRUE
Scaled2(q, e) == IF e >= 0 THEN RMul(q, Rat(Pow2(e), 1))
                 ELSE RDiv(q, Rat(Pow2(0 - e), 1))
RoundHalfEven(q) ==
    LET f == q.n \div q.d
        r == q.n % q.d
    IN IF 2 * r < q.d THEN f
       ELSE IF 2 * r > q.d THEN f + 1
       ELSE IF f % 2 = 0 THEN f ELSE f + 1
Fl(a) ==
    IF a.n = 0 THEN a
    ELSE LET q == RAbs(a)
             e == Exponent(q)
             m == RoundHalfEven(Scaled2(q, 0 - e))
             v == Scaled2(Rat(m, 1), e)
         IN IF a.n < 0 THEN [n |-> 0 - v.n, d |-> v.d] ELSE v
\* the result of an operation, in the arithmetic of the program when
\* rounded, in exact arithmetic otherwise
Num(a, rounded) == IF rounded THEN Fl(a) ELSE a

MAX_ZOOM == Rat(8, 1)
MIN_ZOOM == Rat(1, 5)
ZOOM_STEP == Rat(6, 5)

\* the view of a canvas that has just been constructed, and of resetView
DefaultView == [zoom |-> Rat(1, 1), pan |-> [x |-> Rat(0, 1), y |-> Rat(0, 1)],
                rotation |-> 0]

\* a variant that keeps the lower limit only
ClampZoomFromBelow(z) == IF RLess(z, MIN_ZOOM) THEN MIN_ZOOM ELSE z

\* Math.max(MIN_ZOOM, Math.min(MAX_ZOOM, newZoom))
ClampZoom(z) == IF RLess(z, MIN_ZOOM) THEN MIN_ZOOM
                ELSE IF RLess(MAX_ZOOM, z) THEN MAX_ZOOM ELSE z

\* the pan that keeps the canvas point under the anchor where it is while
\* the zoom goes from z to nz
AnchoredPan(pan, z, anchor, nz) ==
    [x |-> RSub(anchor.x, RMul(RDiv(RSub(anchor.x, pan.x), z), nz)),
     y |-> RSub(anchor.y, RMul(RDiv(RSub(anchor.y, pan.y), z), nz))]

\* getCoords: the canvas coordinate of a pointer over cell c
getCoords(c, dims) == [x |-> Rat(c * dims.width, NumPixels + 1),
                       y |-> Rat(c * dims.height, NumPixels + 1)]

\* Math.hypot(coords.x - vp.x, coords.y - vp.y) < HIT_RADIUS, cells being
\* further apart than the radius
Hit(vp, coords) == vp.x = coords.x /\ vp.y = coords.y

\* a variant that leaves an existing canvas at the size it had
RenderKeep(c, d) ==
    [k \in DOMAIN c |-> IF k \in DOMAIN canvasSize THEN canvasSize[k] ELSE d]

\* the layer canvases of a render: one <canvas> per mounted layer with the
\* width and height of canvasDimensions
Render(c, d) == [k \in DOMAIN c |-> d]

\* a variant of the clamp that lets the drag through
Unclamped(start, delta) == start + delta

\* Math.max(MIN_CANVAS_DIM, start + delta) of the resize mousemove
Clamped(start, delta) == Max(MIN_CANVAS_DIM, start + delta)

\* a variant that applies the scale factors twice
ScaleTwice(vps, old, new) ==
    [i \in 1..Len(vps) |->
        [vps[i] EXCEPT !.x = Rat(@.n * new.width * new.width,
                                 @.d * old.width * old.width),
                       !.y = Rat(@.n * new.height * new.height,
                                 @.d * old.height * old.height)]]

\* prevVPs.map(vp => ({...vp, x: vp.x * scaleX, y: vp.y * scaleY}))
ScaleVPs(vps, old, new) ==
    [i \in 1..Len(vps) |->
        [vps[i] EXCEPT !.x = Rat(@.n * new.width, @.d * old.width),
                       !.y = Rat(@.n * new.height, @.d * old.height)]]

\* the name given to the n-th layer
LayerName(n) == <<"layer", n>>

\* a new sketch layer: visible, source-over, opacity 1 (100 %), no points
NewLayer(n) == [name |-> LayerName(n), isVisible |-> TRUE, opacity |-> 100,
                blendMode |-> "source-over", points |-> <<>>,
                setteiImages |-> <<>>]

\* (v / size) * 100 clamped to 0..100, v being a non-negative fraction
Percent(v, size) ==
    LET r == Rat(v.n * 100, v.d * size)
    IN IF r.n > 100 * r.d THEN Rat(100, 1) ELSE r

\* a variant that never finds a point
FindNone(points, name) == 0

\* points.find(p => p.characterName === name): the index of the first point
\* of that name, 0 when there is none
ExistingPoint(points, name) ==
    LET found == {i \in 1..Len(points) : points[i].characterName = name}
    IN IF found = {} THEN 0 ELSE CHOOSE i \in found : \A j \in found : i <= j

\* every point whose id is pointId moved to coords
MovePoint(points, pointId, coords, dims) ==
    [i \in 1..Len(points) |->
        IF points[i].id = pointId
        THEN [points[i] EXCEPT !.x = Percent(coords.x, dims.width),
                               !.y = Percent(coords.y, dims.height)]
        ELSE points[i]]

\* the point placer on layer l: the point named as the layer is moved, or a
\* new point of radius 15 with that name is appended
PlacePoint(l, coords, dims, newId) ==
    LET i == ExistingPoint(l.points, l.name)
    IN IF i /= 0
       THEN [l EXCEPT !.points = MovePoint(@, l.points[i].id, coords, dims)]
       ELSE [l EXCEPT !.points =
                Append(@, [id |-> newId, characterName |-> l.name,
                           x |-> Percent(coords.x, dims.width),
                           y |-> Percent(coords.y, dims.height),
                           radius |-> 15])]

\* one drawImage of a composite
DrawImage(kind, id, raster, opacity, blendMode) ==
    [kind |-> kind, id |-> id, raster |-> raster, opacity |-> opacity,
     blendMode |-> blendMode]

\* a variant that draws the layers from the top of the stack down
CompositeTopFirst(ls, m, c, g, e, ev) ==
    (IF g.url /= Null /\ g.isVisible
     THEN <<DrawImage("globalReference", g.url, Pixels, 50, "source-over")>>
     ELSE <<>>)
    \o (IF e /= Null /\ ev
        THEN <<DrawImage("editBase", e, Pixels, 70, "source-over")>>
        ELSE <<>>)
    \o LET shown == SelectSeq(ls, LAMBDA k : m[k].isVisible /\ k \in DOMAIN c)
       IN [i \in 1..Len(shown) |->
              LET k == shown[Len(shown) + 1 - i]
              IN DrawImage("layer", k, c[k], m[k].opacity, m[k].blendMode)]

\* redrawPreview on a white canvas: the global reference when visible, the
\* edit base when visible, then every visible layer whose canvas is mounted,
\* in list order, with its opacity and blend mode
Composite(ls, m, c, g, e, ev) ==
    (IF g.url /= Null /\ g.isVisible
     THEN <<DrawImage("globalReference", g.url, Pixels, 50, "source-over")>>
     ELSE <<>>)
    \o (IF e /= Null /\ ev
        THEN <<DrawImage("editBase", e, Pixels, 70, "source-over")>>
        ELSE <<>>)
    \o LET shown == SelectSeq(ls, LAMBDA k : m[k].isVisible /\ k \in DOMAIN c)
       IN [i \in 1..Len(shown) |->
              DrawImage("layer", shown[i], c[shown[i]], m[shown[i]].opacity,
                    m[shown[i]].blendMode)]

\* a variant in which only the direct calls of redrawPreview repaint
PreviewOnCall(called) ==
    preview' = IF called
               THEN Composite(layers', meta', canvas', globalReference',
                              editBase', editBaseVisible')
               ELSE preview

\* redrawPreview as called by a handler after its drawing, and as run by the
\* effect on [layers, globalReference, editBase, redrawPreview] after the
\* render
PreviewEffect(called) ==
    preview' = IF called \/ <<layers', meta', globalReference', editBase',
                              editBaseVisible'>>
                             /= <<layers, meta, globalReference, editBase,
                                  editBaseVisible>>
               THEN Composite(layers', meta', canvas', globalReference',
                              editBase', editBaseVisible')
               ELSE preview

\* the canvases mounted after a render of the layer list ls
Mounted(c, ls) == [k \in Range(ls) |-> IF k \in DOMAIN c THEN c[k] ELSE Blank]

\* getActiveContext: the layer is in the list and its canvas is mounted
getActiveContext(ls, active, c) == active \in Range(ls) /\ active \in DOMAIN c

OpArg(name, id, n, arg) ==
    [op |-> name, id |-> id, n |-> n, arg |-> arg, layers |-> layers,
     active |-> activeLayerId]

Op(name, id, n) == OpArg(name, id, n, Null)

\* loadImageFromBase64 resolves for an image that decodes and rejects for
\* one that does not; compressImageForStorage falls back to the url it got
Decodes(url) == url \notin BadUrls

\* an image of a style reference list, loaded with its mask
SetteiImage(url, mask) == [dataUrl |-> url, maskDataUrl |-> mask]
SetteiDecodes(img) ==
    Decodes(img.dataUrl) /\ (img.maskDataUrl /= Null => Decodes(img.maskDataUrl))

\* a stored layer is a record that may lack fields and may carry the fields
\* of an earlier format
Has(l, field) == field \in DOMAIN l
With(l, field, v) ==
    IF Has(l, field) /\ l[field] = v THEN l
    ELSE [x \in DOMAIN l \cup {field} |-> IF x = field THEN v ELSE l[x]]
Drop(l, field) ==
    IF Has(l, field) THEN [x \in DOMAIN l \ {field} |-> l[x]] ELSE l

\* the layer uses the characterSettings format and has a setting to migrate
Migrates(l) == Has(l, "characterSettings") /\ Len(l.characterSettings) > 0

\* the images restoreCanvases loads for a stored layer
StoredImages(l) ==
    IF Migrates(l) THEN l.characterSettings[1].images
    ELSE IF ~Has(l, "setteiImages") THEN <<>>
    ELSE l.setteiImages

\* a variant that loads a stored layer as it is
loadLayerAsStored(l) == l

\* the callback of layersToLoad.map in restoreCanvases, for a layer whose
\* images decode: mainSetting.name || l.name, the images of the first
\* setting, radius 15 for a point that has none
loadLayer(l) ==
    LET named == IF Migrates(l) /\ l.characterSettings[1].name[1] /= ""
                 THEN With(l, "name", l.characterSettings[1].name) ELSE l
        imaged == With(named, "setteiImages", StoredImages(l))
        migrated == IF Migrates(l) THEN Drop(imaged, "characterSettings")
                    ELSE imaged
        unreferenced == IF Has(l, "referenceImage") /\ l.referenceImage /= Null
                        THEN Drop(migrated, "referenceImage") ELSE migrated
        points == IF Has(l, "points") THEN l.points ELSE <<>>
    IN With(unreferenced, "points",
            [i \in 1..Len(points) |-> With(points[i], "radius",
                IF Has(points[i], "radius") THEN points[i].radius ELSE 15)])

\* the record of a handler in which a decode failed (n = -1): whether the
\* rejection was caught, and the state the handler started from
Failed(name, caught) ==
    OpArg(name, Null, -1,
          [caught |-> caught, canvas |-> canvas, history |-> history,
           meta |-> meta, globalReference |-> globalReference,
           editBase |-> editBase])

NoScen == [ops |-> -1, undos |-> 0, redos |-> 0, final |-> Blank]
FreshScen == [ops |-> 0, undos |-> 0, redos |-> 0, final |-> Blank]

(* ----------------------- effects run after a commit -------------------- *)
\* save-to-localStorage effect: deps layers, vanishingPoints,
\* canvasDimensions, layerCounter, globalReference.  It clears the pending
\* timer and starts a new one unless the document is empty.
SaveEffect(changed) ==
    saveTimer' = IF changed
                 THEN ~(Len(layers') = 0 /\ globalReference'.url = Null)
                 ELSE saveTimer

\* effect calling debouncedOnCanvasChange when its identity changes (deps
\* layers, vanishingPoints, canvasDimensions, lens, globalReference), and
\* the direct calls of the handlers: one pending timer, restarted.
EmitEffect(called) == emitTimer' = (called \/ emitTimer)

\* effect with deps [tool, activeLayerId]: reset the special tool states
ToolLayerEffect ==
    IF tool' /= tool \/ activeLayerId' /= activeLayerId
    THEN /\ isDrawing' = FALSE
         /\ curvePoints' = <<>>
         /\ lineStartPoint' = Null
         /\ ellipseStartPoint' = Null
         /\ opPushes' = -1
    ELSE UNCHANGED <<isDrawing, curvePoints, lineStartPoint, ellipseStartPoint,
                     opPushes>>

(* ------------------------------ history -------------------------------- *)
\* a variant of saveState's updater without the eviction loop
PushUnbounded(h, img) ==
    LET kept == Append(SubSeq(h.stack, 1, h.index + 1), img)
    IN HistoryState(kept, Len(kept) - 1)

\* saveState's setHistory updater: drop the entries above index, push the
\* snapshot, evict the oldest entries above the cap
Push(h, img) ==
    LET kept == Append(SubSeq(h.stack, 1, h.index + 1), img)
        newStack == IF Len(kept) > MAX_HISTORY_STATES
                    THEN SubSeq(kept, Len(kept) - MAX_HISTORY_STATES + 1, Len(kept))
                    ELSE kept
    IN HistoryState(newStack, Len(newStack) - 1)

HistoryOf(h, id) == IF id \in DOMAIN h THEN h[id] ELSE EmptyHistory

\* saveState as it is closed over (ls, active): returns the new history map
\* a variant that pushes the snapshot of the active layer onto every stack
saveStateOnEveryLayer(h, ls, active, c) ==
    IF active /= Null /\ getActiveContext(ls, active, c)
    THEN [k \in DOMAIN h \cup {active} |-> Push(HistoryOf(h, k), c[active])]
    ELSE h

saveState(h, ls, active, c) ==
    IF active /= Null /\ getActiveContext(ls, active, c)
    THEN (active :> Push(HistoryOf(h, active), c[active])) @@ h
    ELSE h

\* 1 when saveState pushes, 0 when it returns early
Pushed(ls, active, c) ==
    IF active /= Null /\ getActiveContext(ls, active, c) THEN 1 ELSE 0

(* --------------------------- initialisation ---------------------------- *)
InitialRef(url) == IF url = Null THEN NoGlobalRef
                   ELSE [url |-> url, isVisible |-> TRUE]

\* mount effect, re-run whenever initialGlobalReferenceUrl changes
initializeCanvas ==
    /\ UNCHANGED idleExt
    /\ initPending
    /\ initPending' = FALSE
    /\ LET initialGlobalRef == InitialRef(hostGlobalRef)
       IN IF storage.present
          THEN /\ canvasDimensions' = storage.canvasDimensions
               /\ vanishingPoints' = storage.vanishingPoints
               /\ layerCounter' = storage.layerCounter
               /\ loadedStateRef' =
                      [present |-> TRUE,
                       layers |-> storage.layers,
                       sketches |-> storage.layerSketches,
                       globalRef |-> IF initialGlobalRef.url /= Null
                                     THEN initialGlobalRef
                                     ELSE storage.globalReference,
                       meta |-> storage.meta]
               \* a canvas whose width or height attribute changes is cleared
               /\ canvas' = IF storage.canvasDimensions /= canvasDimensions
                            THEN [k \in DOMAIN canvas |-> Blank]
                            ELSE canvas
               /\ preview' = IF storage.canvasDimensions /= canvasDimensions
                             THEN <<>> ELSE preview
               /\ UNCHANGED <<layers, activeLayerId, clock, seedTimers, meta>>
          ELSE /\ loadedStateRef' =
                      IF initialGlobalRef.url /= Null
                      THEN [present |-> TRUE, layers |-> <<>>,
                            sketches |-> EmptyFn, globalRef |-> initialGlobalRef,
                            meta |-> EmptyFn]
                      ELSE loadedStateRef
               /\ layers' = <<clock>>
               /\ activeLayerId' = clock
               /\ layerCounter' = 2
               /\ clock' = clock + 1
               /\ canvas' = Mounted(canvas, layers')
               /\ meta' = (clock :> NewLayer(1))
               \* the preview is filled white, then the effect repaints it
               /\ preview' = Composite(layers', meta', canvas',
                                       globalReference, editBase,
                                       editBaseVisible)
               /\ seedTimers' = seedTimers \cup {[id |-> clock, kind |-> "init"]}
               /\ UNCHANGED <<canvasDimensions, vanishingPoints>>
    /\ last' = Op("initializeCanvas", Null, 0)
    /\ scen' = NoScen
    /\ UNCHANGED <<history, globalReference, editBase, resizeDataRef,
                   activeVPId, draggingVPId, tool, pointsRef, isPanning,
                   isScrubbyZooming>>
    /\ UNCHANGED <<storage, hostVars, editPending, mergeTimer, editorVars>>
    /\ canvasSize' = Render(canvas', canvasDimensions')
    /\ ToolLayerEffect
    /\ SaveEffect(TRUE)
    /\ EmitEffect(TRUE)

\* the setTimeout(0) of initializeCanvas (kind "init": replaces the whole
\* history map) and of addSketchLayer (kind "add": adds one entry)
seedHistory(t) ==
    /\ UNCHANGED extVars
    /\ t \in seedTimers
    /\ seedTimers' = seedTimers \ {t}
    /\ IF t.id \in DOMAIN canvas
       THEN /\ canvas' = [canvas EXCEPT ![t.id] = Blank]
            /\ history' = IF t.kind = "init"
                          THEN (t.id :> HistoryState(<<Blank>>, 0))
                          ELSE (t.id :> HistoryState(<<Blank>>, 0)) @@ history
            /\ scen' = IF t.id = activeLayerId /\ opPushes = -1 /\ ~isDrawing
                       THEN FreshScen ELSE NoScen
       ELSE UNCHANGED <<canvas, history, scen>>
    /\ last' = Op("seedHistory", t.id, 0)
    /\ UNCHANGED <<layers, activeLayerId, layerCounter, clock, drawVars, vpVars,
                   docVars, storage, saveTimer, emitTimer, hostVars,
                   initPending, editPending, mergeTimer, editorVars, opPushes>>

\* restoreCanvases, run by the layout effect once loadedStateRef is set.
\* The canvases are looked up right after setLayers, before the loaded
\* layers are rendered: only the ids that are already mounted are restored.
restoreCanvases ==
    LET ls == loadedStateRef
        found == Range(ls.layers) \cap DOMAIN canvas
        drawn == [k \in DOMAIN canvas |->
                     IF k \in found /\ k \in DOMAIN ls.sketches
                     THEN ls.sketches[k] ELSE canvas[k]]
        \* the try / catch around the global reference
        refFails == ls.globalRef.url /= Null /\ ~Decodes(ls.globalRef.url)
        \* Promise.all over the layers rejects with the first image of a
        \* style reference list that fails, and nothing catches it
        rejects == \E k \in Range(ls.layers) :
                      \E i \in 1..Len(StoredImages(ls.meta[k])) :
                         ~SetteiDecodes(StoredImages(ls.meta[k])[i])
        stored == [k \in Range(ls.layers) |-> ls.meta[k]]
    IN
    /\ UNCHANGED idleExt
    /\ ls.present
    /\ globalReference' = IF ls.globalRef.url /= Null /\ ~refFails
                          THEN ls.globalRef ELSE globalReference
    /\ UNCHANGED <<layerCounter, clock, canvasDimensions, editBase,
                   resizeDataRef, tool, pointsRef, isPanning, isScrubbyZooming,
                   vpVars, storage, hostVars, initPending, editPending,
                   seedTimers, mergeTimer, editorVars>>
    /\ IF rejects
       THEN /\ last' = Failed("restoreCanvases", FALSE)
            /\ UNCHANGED <<layers, canvas, meta, history, activeLayerId,
                           loadedStateRef, scen, canvasSize>>
            /\ ToolLayerEffect
            /\ SaveEffect(globalReference' /= globalReference)
            /\ EmitEffect(globalReference' /= globalReference)
            /\ PreviewEffect(FALSE)
       ELSE /\ layers' = ls.layers
            /\ canvas' = Mounted(drawn, layers')
            /\ meta' = [k \in Range(ls.layers) |-> loadLayer(ls.meta[k])]
            /\ history' = [k \in found |-> HistoryState(<<drawn[k]>>, 0)]
            /\ activeLayerId' = IF Len(ls.layers) > 0
                                THEN ls.layers[Len(ls.layers)]
                                ELSE activeLayerId
            /\ loadedStateRef' = NoLoaded
            /\ last' = IF refFails THEN Failed("restoreCanvases", TRUE)
                       ELSE OpArg("restoreCanvases", Null, 0, stored)
            /\ scen' = NoScen
            /\ canvasSize' = Render(canvas', canvasDimensions')
            /\ ToolLayerEffect
            /\ SaveEffect(TRUE)
            /\ EmitEffect(TRUE)
            /\ PreviewEffect(TRUE)

(* --------------------------- pointer handlers -------------------------- *)
IsMouse(ptr) == ptr \in {"left", "middle", "right", "altRight"}

\* isPrimaryAction: button 0 of a mouse event, any touch event
IsPrimaryAction(ptr) == IF IsMouse(ptr) THEN ptr = "left" ELSE TRUE

\* what a completed shape paints
Paint(r, ps) == r \cup ps
Erase(r, ps) == r \ ps

\* a variant that takes the four clicks in the order start, control,
\* control, end
CubicInClickOrder(points, c) ==
    [start |-> points[1], cp1 |-> points[2], cp2 |-> points[3], end |-> c]

\* the cubic of the 4th click: [start, end, cp1] = curvePoints, cp2 = coords
Cubic(points, c) ==
    [start |-> points[1], end |-> points[2], cp1 |-> points[3], cp2 |-> c]

\* moveTo(start), bezierCurveTo(cp1, cp2, end), stroke(): the curve runs
\* from start to end, the control points bend it and are not on it
CurvePixels(b) == {b.start, b.end}

\* drawEllipse returns without drawing when a radius is 0
EllipsePixels(start, end) == IF start = end THEN {} ELSE {start, end}

\* bookkeeping of the active layer's draw / undo / redo sequence
ScenDraw(r) == IF /\ scen.ops >= 0 /\ scen.ops < MaxUndoDowns
                     /\ scen.undos = 0 /\ scen.redos = 0
               THEN [scen EXCEPT !.ops = @ + 1, !.final = r]
               ELSE NoScen
ScenUndo == IF scen.ops >= 0 /\ scen.redos = 0 /\ scen.undos < scen.ops
            THEN [scen EXCEPT !.undos = @ + 1]
            ELSE NoScen
ScenRedo == IF scen.ops >= 0 /\ scen.undos = scen.ops /\ scen.redos < scen.ops
            THEN [scen EXCEPT !.redos = @ + 1]
            ELSE NoScen

\* onMouseDown / onTouchStart of the canvas container
startDrawing(ptr, c) ==
    LET saves == tool \in DrawTools /\ IsPrimaryAction(ptr)
                 /\ activeLayerId \in Range(layers)
        p == IF saves THEN Pushed(layers, activeLayerId, canvas) ELSE 0
        h1 == IF saves THEN saveState(history, layers, activeLayerId, canvas)
              ELSE history
        ctx == getActiveContext(layers, activeLayerId, canvas)
        inOp == opPushes >= 0
        newVP == ptr \in {"left", "right", "touch1"} /\ tool = "perspective"
                 /\ \A i \in 1..Len(vanishingPoints) :
                        ~Hit(vanishingPoints[i], getCoords(c, canvasDimensions))
        places == /\ ptr \in {"left", "right", "touch1"}
                  /\ tool = "point_placer"
                  /\ activeLayerId \in Range(layers)
        newPoint == places /\ ExistingPoint(meta[activeLayerId].points,
                                            meta[activeLayerId].name) = 0
    IN
    /\ UNCHANGED <<canvasSize, draggingPoint, view, orphanEmit,
                   editBaseVisible>>
    /\ lastTouchesRef' = CASE ptr = "touch1" -> 1
                            [] ptr = "touch2" -> 2
                            [] OTHER -> lastTouchesRef
    /\ meta' = IF places
               THEN [meta EXCEPT ![activeLayerId] =
                        PlacePoint(@, getCoords(c, canvasDimensions),
                                   canvasDimensions, clock)]
               ELSE meta
    /\ UNCHANGED <<layers, activeLayerId, layerCounter, tool, docVars,
                   storage, hostVars, initPending, editPending, seedTimers,
                   mergeTimer, editorVars>>
    /\ clock' = IF newVP \/ newPoint THEN clock + 1 ELSE clock
    /\ SaveEffect(newVP \/ places)
    /\ CASE ptr = "altRight" ->
              /\ isScrubbyZooming' = TRUE
              /\ last' = Op("startDrawing", Null, 0)
              /\ UNCHANGED <<canvas, history, isDrawing, pointsRef, lineStartPoint,
                             ellipseStartPoint, curvePoints, isPanning, vpVars,
                             emitTimer, opPushes, scen>>
         [] ptr = "middle" ->
              /\ isPanning' = TRUE
              /\ last' = Op("startDrawing", Null, 0)
              /\ UNCHANGED <<canvas, history, isDrawing, pointsRef, lineStartPoint,
                             ellipseStartPoint, curvePoints, isScrubbyZooming,
                             vpVars, emitTimer, opPushes, scen>>
         [] ptr = "touch2" ->
              \* the snapshot is pushed before the touch count is looked at
              /\ history' = h1
              /\ opPushes' = IF inOp THEN opPushes + p ELSE opPushes
              /\ scen' = IF p = 0 THEN scen ELSE NoScen
              /\ last' = Op("startDrawing", Null, p)
              /\ UNCHANGED <<canvas, isDrawing, pointsRef, lineStartPoint,
                             ellipseStartPoint, curvePoints, isPanning,
                             isScrubbyZooming, vpVars, emitTimer>>
         [] ptr \in {"left", "right", "touch1"} /\ tool = "line" ->
              /\ history' = h1
              /\ IF (IsMouse(ptr) /\ ptr /= "left") \/ ~ctx
                 THEN UNCHANGED <<lineStartPoint, isDrawing, opPushes>>
                 ELSE /\ lineStartPoint' = c
                      /\ isDrawing' = TRUE
                      /\ opPushes' = p
              /\ last' = Op("startDrawing", Null, p)
              /\ UNCHANGED <<canvas, pointsRef, ellipseStartPoint, curvePoints,
                             isPanning, isScrubbyZooming, vpVars, emitTimer, scen>>
         [] ptr \in {"left", "right", "touch1"} /\ tool = "point_placer" ->
              /\ emitTimer' = (places \/ emitTimer)
              /\ last' = IF places
                         THEN OpArg("placePoint", activeLayerId, 0,
                                    meta[activeLayerId])
                         ELSE Op("startDrawing", Null, 0)
              /\ UNCHANGED <<canvas, history, isDrawing, pointsRef,
                             lineStartPoint, ellipseStartPoint, curvePoints,
                             isPanning, isScrubbyZooming, vpVars, opPushes, scen>>
         [] ptr \in {"left", "right", "touch1"} /\ tool = "point_deleter" ->
              \* no branch of its own: the handler falls through to its end
              /\ isDrawing' = (ctx \/ isDrawing)
              /\ last' = Op("startDrawing", Null, 0)
              /\ UNCHANGED <<canvas, history, pointsRef, lineStartPoint,
                             ellipseStartPoint, curvePoints, isPanning,
                             isScrubbyZooming, vpVars, emitTimer, opPushes, scen>>
         [] ptr \in {"left", "right", "touch1"} /\ tool \in BrushTools ->
              /\ history' = h1
              /\ isDrawing' = TRUE
              /\ pointsRef' = <<c>>
              /\ opPushes' = p
              /\ last' = Op("startDrawing", Null, p)
              /\ UNCHANGED <<canvas, lineStartPoint, ellipseStartPoint,
                             curvePoints, isPanning, isScrubbyZooming, vpVars,
                             emitTimer, scen>>
         [] ptr \in {"left", "right", "touch1"} /\ tool = "perspective" ->
              /\ LET coords == getCoords(c, canvasDimensions)
                     hit == {i \in 1..Len(vanishingPoints) :
                                 Hit(vanishingPoints[i], coords)}
                 IN IF hit /= {}
                    THEN LET clickedVP == vanishingPoints[CHOOSE i \in hit :
                                              \A j \in hit : i <= j]
                         IN /\ activeVPId' = clickedVP.id
                            /\ draggingVPId' = clickedVP.id
                            /\ UNCHANGED <<vanishingPoints, emitTimer>>
                    ELSE /\ emitTimer' = TRUE
                         /\ vanishingPoints' =
                                Append(vanishingPoints,
                                       [id |-> clock, x |-> coords.x,
                                        y |-> coords.y])
                         /\ activeVPId' = clock
                         /\ draggingVPId' = clock
              /\ last' = Op("startDrawing", Null, 0)
              /\ UNCHANGED <<canvas, history, isDrawing, pointsRef, lineStartPoint,
                             ellipseStartPoint, curvePoints, isPanning,
                             isScrubbyZooming, opPushes, scen>>
         [] ptr \in {"left", "right", "touch1"} /\ tool = "curve" ->
              IF Len(curvePoints) = 3
              THEN \* 4th click: draw the cubic, then saveState() again
                   LET drawn == IF ctx
                                THEN [canvas EXCEPT ![activeLayerId] =
                                        Paint(@, CurvePixels(
                                                     Cubic(curvePoints, c)))]
                                ELSE canvas
                   IN /\ canvas' = drawn
                      /\ curvePoints' = <<>>
                      /\ history' = saveState(h1, layers, activeLayerId, drawn)
                      /\ opPushes' = -1
                      /\ last' = IF ctx THEN Op("draw", activeLayerId, opPushes + p)
                                 ELSE Op("startDrawing", Null, p)
                      /\ scen' = IF ctx THEN ScenDraw(drawn[activeLayerId])
                                 ELSE scen
                      /\ emitTimer' = TRUE
                      /\ UNCHANGED <<isDrawing, pointsRef, lineStartPoint,
                                     ellipseStartPoint, isPanning,
                                     isScrubbyZooming, vpVars>>
              ELSE /\ curvePoints' = Append(curvePoints, c)
                   /\ history' = h1
                   /\ opPushes' = (IF Len(curvePoints) = 0 THEN 0 ELSE opPushes) + p
                   /\ last' = Op("startDrawing", Null, p)
                   /\ UNCHANGED <<canvas, isDrawing, pointsRef, lineStartPoint,
                                  ellipseStartPoint, isPanning, isScrubbyZooming,
                                  vpVars, emitTimer, scen>>
         [] ptr \in {"left", "right", "touch1"} /\ tool = "ellipse" ->
              /\ history' = h1
              /\ IF ctx
                 THEN /\ isDrawing' = TRUE
                      /\ ellipseStartPoint' = c
                      /\ opPushes' = p
                 ELSE UNCHANGED <<isDrawing, ellipseStartPoint, opPushes>>
              /\ last' = Op("startDrawing", Null, p)
              /\ UNCHANGED <<canvas, pointsRef, lineStartPoint, curvePoints,
                             isPanning, isScrubbyZooming, vpVars, emitTimer, scen>>
    /\ PreviewEffect(/\ ptr \in {"left", "right", "touch1"}
                     /\ tool = "curve" /\ Len(curvePoints) = 3)

\* draw(event), reached from handleMouseMove and from handleTouchMove with
\* one touch: a brush appends a sample, the perspective tool moves the
\* vanishing point that is dragged
draw(c) ==
    /\ UNCHANGED <<canvasSize, meta, preview, draggingPoint, view, orphanEmit,
                   editBaseVisible>>
    /\ (tool \in BrushTools /\ isDrawing /\ Len(pointsRef) < MaxSamples)
       \/ (tool = "perspective" /\ draggingVPId /= Null)
    /\ UNCHANGED <<layerVars, tool, isDrawing, lineStartPoint, ellipseStartPoint,
                   curvePoints, isPanning, isScrubbyZooming, activeVPId,
                   draggingVPId, docVars, storage, hostVars, initPending,
                   editPending, seedTimers, mergeTimer, editorVars, opPushes,
                   scen>>
    /\ last' = Op("draw-move", Null, 0)
    /\ IF tool \in BrushTools
       THEN /\ pointsRef' = Append(pointsRef, c)
            /\ UNCHANGED <<vanishingPoints, saveTimer, emitTimer>>
       ELSE /\ vanishingPoints' =
                  [i \in 1..Len(vanishingPoints) |->
                      IF vanishingPoints[i].id = draggingVPId
                      THEN [vanishingPoints[i] EXCEPT
                               !.x = getCoords(c, canvasDimensions).x,
                               !.y = getCoords(c, canvasDimensions).y]
                      ELSE vanishingPoints[i]]
            /\ SaveEffect(TRUE)
            /\ emitTimer' = TRUE
            /\ UNCHANGED pointsRef

\* handleMouseMove, when no anchor point is dragged and the view is neither
\* scrubbed nor panned: needsPreview, then draw
handleMouseMove(c) ==
    /\ ~draggingPoint.present
    /\ ~isScrubbyZooming /\ ~isPanning
    /\ UNCHANGED lastTouchesRef
    /\ draw(c)

\* onMouseUp / onMouseLeave / onTouchEnd of the canvas container; touches is
\* the number of touch points that stay down after a touch end, and -1 for
\* a mouse event
stopDrawingBy(touches, c) ==
    LET ctx == getActiveContext(layers, activeLayerId, canvas)
        Commit(ps, erase) ==
            /\ canvas' = IF ctx
                         THEN [canvas EXCEPT ![activeLayerId] =
                                  IF erase THEN Erase(@, ps) ELSE Paint(@, ps)]
                         ELSE canvas
            /\ last' = IF ctx THEN Op("draw", activeLayerId, opPushes)
                       ELSE Op("stopDrawing", Null, 0)
            /\ scen' = IF ctx THEN ScenDraw(canvas'[activeLayerId]) ELSE scen
            /\ opPushes' = -1
            /\ emitTimer' = TRUE
    IN
    /\ ~draggingPoint.present
    /\ UNCHANGED <<canvasSize, meta, draggingPoint, view, orphanEmit,
                   editBaseVisible>>
    /\ lastTouchesRef' = IF touches >= 0 /\ tool /= "line" /\ ~isScrubbyZooming
                         THEN touches
                         ELSE lastTouchesRef
    /\ UNCHANGED <<layers, activeLayerId, layerCounter, clock, history, tool,
                   curvePoints, vanishingPoints, activeVPId, docVars, storage,
                   saveTimer, hostVars, initPending, editPending, seedTimers,
                   mergeTimer, editorVars>>
    /\ IF tool = "line"
       THEN IF ~isDrawing \/ lineStartPoint = Null
            THEN /\ last' = Op("stopDrawing", Null, 0)
                 /\ UNCHANGED <<canvas, isDrawing, pointsRef, lineStartPoint,
                                ellipseStartPoint, isPanning, isScrubbyZooming,
                                draggingVPId, emitTimer, opPushes, scen>>
            ELSE /\ Commit({lineStartPoint, c}, FALSE)
                 /\ isDrawing' = FALSE
                 /\ lineStartPoint' = Null
                 /\ UNCHANGED <<pointsRef, ellipseStartPoint, isPanning,
                                isScrubbyZooming, draggingVPId>>
       ELSE IF isScrubbyZooming
       THEN /\ isScrubbyZooming' = FALSE
            /\ last' = Op("stopDrawing", Null, 0)
            /\ UNCHANGED <<canvas, isDrawing, pointsRef, lineStartPoint,
                           ellipseStartPoint, isPanning, draggingVPId, emitTimer,
                           opPushes, scen>>
       ELSE /\ isPanning' = FALSE
            /\ UNCHANGED isScrubbyZooming
            /\ CASE tool \in BrushTools /\ ~isDrawing ->
                      /\ last' = Op("stopDrawing", Null, 0)
                      /\ UNCHANGED <<canvas, isDrawing, pointsRef, lineStartPoint,
                                     ellipseStartPoint, draggingVPId, emitTimer,
                                     opPushes, scen>>
                 [] tool \in BrushTools /\ isDrawing ->
                      /\ Commit(Range(pointsRef), tool = "eraser")
                      /\ pointsRef' = <<>>
                      /\ isDrawing' = FALSE
                      /\ UNCHANGED <<lineStartPoint, ellipseStartPoint,
                                     draggingVPId>>
                 [] tool = "perspective" ->
                      /\ draggingVPId' = Null
                      /\ last' = Op("stopDrawing", Null, 0)
                      /\ UNCHANGED <<canvas, isDrawing, pointsRef, lineStartPoint,
                                     ellipseStartPoint, emitTimer, opPushes, scen>>
                 [] tool = "curve"
                    \/ (tool \in {"ellipse"} \cup PointTools /\ ~isDrawing) ->
                      /\ last' = Op("stopDrawing", Null, 0)
                      /\ UNCHANGED <<canvas, isDrawing, pointsRef, lineStartPoint,
                                     ellipseStartPoint, draggingVPId, emitTimer,
                                     opPushes, scen>>
                 [] tool \in {"ellipse"} \cup PointTools /\ isDrawing ->
                      /\ IF tool = "ellipse" /\ ellipseStartPoint /= Null /\ ctx
                            /\ EllipsePixels(ellipseStartPoint, c) /= {}
                         THEN Commit(EllipsePixels(ellipseStartPoint, c), FALSE)
                         ELSE /\ last' = Op("stopDrawing", Null, 0)
                              /\ scen' = NoScen
                              /\ opPushes' = -1
                              /\ emitTimer' = TRUE
                              /\ UNCHANGED canvas
                      /\ isDrawing' = FALSE
                      /\ lineStartPoint' = Null
                      /\ ellipseStartPoint' = Null
                      /\ UNCHANGED <<pointsRef, draggingVPId>>
    /\ PreviewEffect(IF tool = "line"
                     THEN isDrawing /\ lineStartPoint /= Null
                     ELSE /\ ~isScrubbyZooming /\ isDrawing
                          /\ tool \notin {"perspective", "curve"})

stopDrawing(c) == stopDrawingBy(-1, c)

\* handleUndo / handleRedo (toolbar buttons and Ctrl+Z / Ctrl+Y)
handleUndo ==
    LET layerHistory == HistoryOf(history, activeLayerId)
        ctx == getActiveContext(layers, activeLayerId, canvas)
    IN
    /\ UNCHANGED <<canvasSize, meta, idleExt>>
    /\ IF activeLayerId /= Null /\ activeLayerId \in DOMAIN history
          /\ layerHistory.index > 0
       THEN /\ canvas' = IF ctx
                         THEN [canvas EXCEPT ![activeLayerId] =
                                  layerHistory.stack[layerHistory.index]]
                         ELSE canvas
            /\ history' = [history EXCEPT ![activeLayerId].index = @ - 1]
            /\ emitTimer' = TRUE
       ELSE UNCHANGED <<canvas, history, emitTimer>>
    /\ last' = Op("handleUndo", activeLayerId, 0)
    /\ scen' = ScenUndo
    /\ UNCHANGED <<layers, activeLayerId, layerCounter, clock, drawVars, vpVars,
                   docVars, storage, saveTimer, hostVars, initPending,
                   editPending, seedTimers, mergeTimer, editorVars, opPushes>>
    /\ PreviewEffect(activeLayerId /= Null /\ activeLayerId \in DOMAIN history
                     /\ layerHistory.index > 0)

handleRedo ==
    LET layerHistory == HistoryOf(history, activeLayerId)
        ctx == getActiveContext(layers, activeLayerId, canvas)
    IN
    /\ UNCHANGED <<canvasSize, meta, idleExt>>
    /\ IF activeLayerId /= Null /\ activeLayerId \in DOMAIN history
          /\ layerHistory.index < Len(layerHistory.stack) - 1
       THEN /\ canvas' = IF ctx
                         THEN [canvas EXCEPT ![activeLayerId] =
                                  layerHistory.stack[layerHistory.index + 2]]
                         ELSE canvas
            /\ history' = [history EXCEPT ![activeLayerId].index = @ + 1]
            /\ emitTimer' = TRUE
       ELSE UNCHANGED <<canvas, history, emitTimer>>
    /\ last' = Op("handleRedo", activeLayerId, 0)
    /\ scen' = ScenRedo
    /\ UNCHANGED <<layers, activeLayerId, layerCounter, clock, drawVars, vpVars,
                   docVars, storage, saveTimer, hostVars, initPending,
                   editPending, seedTimers, mergeTimer, editorVars, opPushes>>
    /\ PreviewEffect(activeLayerId /= Null /\ activeLayerId \in DOMAIN history
                     /\ layerHistory.index < Len(layerHistory.stack) - 1)

\* a variant of the Escape branch that leaves the shape in progress
handleKeyDownIgnored ==
    /\ UNCHANGED extVars
    /\ last' = OpArg("handleKeyDown", activeLayerId, 0, "none")
    /\ UNCHANGED <<layerVars, drawVars, vpVars, docVars, timerVars,
                   editorVars, opPushes, scen>>

\* handleKeyDown, e.key === 'Escape': the first of the line start, the
\* ellipse start and the curve points that is set is cleared; isDrawing and
\* the rasters are not touched
handleKeyDownEscape ==
    LET shape == IF lineStartPoint /= Null THEN "line"
                 ELSE IF ellipseStartPoint /= Null THEN "ellipse"
                 ELSE IF Len(curvePoints) > 0 THEN "curve"
                 ELSE "none"
    IN
    /\ UNCHANGED extVars
    /\ lineStartPoint' = IF shape = "line" THEN Null ELSE lineStartPoint
    /\ ellipseStartPoint' = IF shape = "ellipse" THEN Null
                            ELSE ellipseStartPoint
    /\ curvePoints' = IF shape = "curve" THEN <<>> ELSE curvePoints
    /\ last' = OpArg("handleKeyDown", activeLayerId, 0, shape)
    /\ opPushes' = IF shape = "none" THEN opPushes ELSE -1
    /\ scen' = IF shape = "none" \/ opPushes = -1 THEN scen ELSE NoScen
    /\ UNCHANGED <<layerVars, tool, isDrawing, pointsRef, isPanning,
                   isScrubbyZooming, vpVars, docVars, timerVars, editorVars>>

\* toolbar buttons and the B / M / E keys
setTool(t) ==
    /\ UNCHANGED extVars
    /\ t /= tool
    /\ tool' = t
    /\ scen' = IF opPushes = -1 THEN scen ELSE NoScen
    /\ last' = Op("setTool", Null, 0)
    /\ UNCHANGED <<layerVars, pointsRef, isPanning, isScrubbyZooming, vpVars,
                   docVars, timerVars, editorVars>>
    /\ ToolLayerEffect

(* ----------------------------- layer panel ----------------------------- *)
\* a variant of the insertion that puts the new layer on top of the list
InsertOnTop(ls, active, newId) == Append(ls, newId)

\* addSketchLayer's setLayers updater: splice(activeIndex + 1, 0, newLayer)
InsertAbove(ls, active, newId) == InsertAt(ls, IndexOf(ls, active) + 1, newId)

\* "add layer" button
addSketchLayer ==
    LET newId == clock
    IN
    /\ UNCHANGED idleExt
    /\ layers' = InsertAbove(layers, activeLayerId, newId)
    /\ layerCounter' = layerCounter + 1
    /\ activeLayerId' = newId
    /\ clock' = clock + 1
    /\ canvas' = Mounted(canvas, layers')
    /\ meta' = (newId :> NewLayer(layerCounter)) @@ meta
    /\ seedTimers' = seedTimers \cup {[id |-> newId, kind |-> "add"]}
    /\ last' = Op("addSketchLayer", newId, 0)
    /\ scen' = NoScen
    /\ UNCHANGED <<history, tool, pointsRef, isPanning, isScrubbyZooming, vpVars,
                   docVars, storage, hostVars, initPending, editPending,
                   mergeTimer, editorVars>>
    /\ canvasSize' = Render(canvas', canvasDimensions')
    /\ ToolLayerEffect
    /\ SaveEffect(TRUE)
    /\ EmitEffect(TRUE)
    /\ PreviewEffect(FALSE)

\* a variant of the re-selection that takes the top of the new list
NextActiveTop(newLayers, layerIndex) == newLayers[Len(newLayers)]

\* deleteLayer's re-selection: newLayers[Math.max(0, layerIndex - 1)]
NextActive(newLayers, layerIndex) ==
    newLayers[IF layerIndex - 1 >= 1 THEN layerIndex - 1 ELSE 1]

\* layer row "delete" button
deleteLayer(id) ==
    LET layerIndex == IndexOf(layers, id)
        newLayers == Filter(layers, id)
    IN
    /\ UNCHANGED idleExt
    /\ IF Len(layers) <= 1
       THEN UNCHANGED <<layers, history, activeLayerId, canvas, meta>>
       ELSE /\ layers' = newLayers
            /\ history' = Without(history, id)
            /\ activeLayerId' = IF activeLayerId = id
                                THEN NextActive(newLayers, layerIndex)
                                ELSE activeLayerId
            /\ canvas' = Mounted(canvas, newLayers)
            /\ meta' = Without(meta, id)
    /\ last' = Op("deleteLayer", id, Len(layers))
    /\ scen' = NoScen
    /\ UNCHANGED <<layerCounter, clock, tool, pointsRef, isPanning,
                   isScrubbyZooming, vpVars, docVars, storage, hostVars,
                   initPending, editPending, seedTimers, mergeTimer, editorVars>>
    /\ canvasSize' = Render(canvas', canvasDimensions')
    /\ ToolLayerEffect
    /\ SaveEffect(Len(layers) > 1)
    /\ EmitEffect(Len(layers) > 1)
    /\ PreviewEffect(FALSE)

\* layer row "up" / "down" buttons
moveLayer(id, direction) ==
    LET index == IndexOf(layers, id)
        targetIndex == IF direction = "up" THEN index + 1 ELSE index - 1
        stays == (direction = "up" /\ index >= Len(layers))
                 \/ (direction = "down" /\ index <= 1)
    IN
    /\ UNCHANGED <<canvasSize, meta, idleExt>>
    /\ layers' = IF stays THEN layers
                 ELSE [layers EXCEPT ![index] = layers[targetIndex],
                                     ![targetIndex] = layers[index]]
    /\ last' = Op("moveLayer", id, 0)
    /\ UNCHANGED <<activeLayerId, layerCounter, clock, canvas, history, drawVars,
                   vpVars, docVars, storage, hostVars, initPending, editPending,
                   seedTimers, mergeTimer, editorVars, opPushes, scen>>
    /\ SaveEffect(~stays)
    /\ EmitEffect(~stays)
    /\ PreviewEffect(FALSE)

\* click on a layer row
setActiveLayerId(id) ==
    /\ UNCHANGED extVars
    /\ activeLayerId' = id
    /\ last' = Op("setActiveLayerId", id, 0)
    /\ scen' = NoScen
    /\ UNCHANGED <<layers, layerCounter, clock, canvas, history, tool, pointsRef,
                   isPanning, isScrubbyZooming, vpVars, docVars, timerVars,
                   editorVars>>
    /\ ToolLayerEffect

\* layer row "merge down" button: the part that runs in the click handler
mergeLayerDown(id) ==
    LET index == IndexOf(layers, id)
    IN
    IF index <= 1 \/ id \notin DOMAIN canvas
       \/ layers[index - 1] \notin DOMAIN canvas
    THEN /\ last' = Op("mergeLayerDown", Null, 0)
         /\ UNCHANGED <<layerVars, drawVars, vpVars, docVars, timerVars,
                        editorVars, extVars, opPushes, scen>>
    ELSE LET bottom == layers[index - 1]
             h1 == saveState(history, layers, activeLayerId, canvas)
             merged == [canvas EXCEPT ![bottom] = Paint(@, canvas[id])]
             newLayers == Filter(layers, id)
         IN
         /\ UNCHANGED idleExt
         /\ layers' = newLayers
         /\ history' = Without(h1, id)
         /\ activeLayerId' = bottom
         /\ canvas' = Mounted(merged, newLayers)
         /\ meta' = Without(meta, id)
         /\ mergeTimer' = [present |-> TRUE, id |-> id, bottom |-> bottom,
                           currentActive |-> activeLayerId, layers |-> layers,
                           n |-> Len(HistoryOf(history, bottom).stack)]
         /\ last' = OpArg("mergeLayerDown", bottom, 0, id)
         /\ scen' = NoScen
         /\ UNCHANGED <<layerCounter, clock, tool, pointsRef, isPanning,
                        isScrubbyZooming, vpVars, docVars, storage, hostVars,
                        initPending, editPending, seedTimers, editorVars>>
         /\ canvasSize' = Render(canvas', canvasDimensions')
         /\ ToolLayerEffect
         /\ SaveEffect(TRUE)
         /\ EmitEffect(TRUE)
         /\ PreviewEffect(TRUE)

\* mergeLayerDown's setTimeout(0): saveState and currentActive are the ones
\* of the render in which the button was clicked
mergeDeferred ==
    /\ UNCHANGED extVars
    /\ mergeTimer.present
    /\ history' = saveState(history, mergeTimer.layers, mergeTimer.currentActive,
                            canvas)
    /\ activeLayerId' = IF mergeTimer.currentActive = mergeTimer.id
                        THEN mergeTimer.bottom
                        ELSE mergeTimer.currentActive
    /\ mergeTimer' = NoMerge
    /\ last' = OpArg("mergeDone", mergeTimer.bottom, mergeTimer.n, mergeTimer.id)
    /\ scen' = NoScen
    /\ UNCHANGED <<layers, layerCounter, clock, canvas, tool, pointsRef,
                   isPanning, isScrubbyZooming, vpVars, docVars, storage,
                   saveTimer, emitTimer, hostVars, initPending, editPending,
                   seedTimers, editorVars>>
    /\ ToolLayerEffect

\* "clear layer" button
clearActiveLayer ==
    LET ctx == activeLayerId /= Null
               /\ getActiveContext(layers, activeLayerId, canvas)
        cleared == [canvas EXCEPT ![activeLayerId] = Blank]
    IN
    /\ UNCHANGED <<canvasSize, meta, idleExt>>
    /\ IF ctx
       THEN /\ canvas' = cleared
            /\ history' = saveState(
                              saveState(history, layers, activeLayerId, canvas),
                              layers, activeLayerId, cleared)
            /\ emitTimer' = TRUE
       ELSE UNCHANGED <<canvas, history, emitTimer>>
    /\ last' = Op("clearActiveLayer", activeLayerId, 0)
    /\ scen' = NoScen
    /\ UNCHANGED <<layers, activeLayerId, layerCounter, clock, drawVars, vpVars,
                   docVars, storage, saveTimer, hostVars, initPending,
                   editPending, seedTimers, mergeTimer, editorVars, opPushes>>
    /\ PreviewEffect(ctx)

(* ------------------------ persistence and emission --------------------- *)
\* what the save timer writes: the state of its render, the rasters as
\* they are when it fires
Document ==
    [present |-> TRUE,
     layers |-> layers,
     layerSketches |-> [k \in Range(layers) \cap DOMAIN canvas |-> canvas[k]],
     globalReference |-> globalReference,
     vanishingPoints |-> vanishingPoints,
     canvasDimensions |-> canvasDimensions,
     layerCounter |-> layerCounter,
     meta |-> meta]

\* the 1500 ms timer of the save effect
saveToStorage ==
    /\ UNCHANGED extVars
    /\ saveTimer
    /\ saveTimer' = FALSE
    /\ storage' = Document
    /\ UNCHANGED <<layerVars, drawVars, vpVars, docVars, emitTimer, hostVars,
                   initPending, editPending, seedTimers, mergeTimer, editorVars,
                   last, opPushes, scen>>

\* the 300 ms timer of debouncedOnCanvasChange: calls App.handleCanvasChange
Emitted(g) == IF g.url /= Null /\ g.isVisible THEN g.url ELSE Null

emitCanvasChange ==
    /\ UNCHANGED extVars
    /\ emitTimer
    /\ emitTimer' = FALSE
    /\ hostTimer' = Emitted(globalReference)
    /\ UNCHANGED <<layerVars, drawVars, vpVars, docVars, storage, saveTimer,
                   hostGlobalRef, hostEditBase, initPending, editPending,
                   seedTimers, mergeTimer, editorVars, last, opPushes, scen>>

\* the emission timer of a canvas unmounted by a reset: nothing clears it, so
\* its callback runs with the state it closed over
orphanCanvasChange ==
    /\ orphanEmit /= <<>>
    /\ hostTimer' = Head(orphanEmit)
    /\ orphanEmit' = Tail(orphanEmit)
    /\ UNCHANGED <<canvasSize, meta, preview, draggingPoint, view,
                   editBaseVisible, lastTouchesRef>>
    /\ UNCHANGED <<layerVars, drawVars, vpVars, docVars, storage, saveTimer,
                   emitTimer, hostGlobalRef, hostEditBase, initPending,
                   editPending, seedTimers, mergeTimer, editorVars, last,
                   opPushes, scen>>

\* the 300 ms timer of App.handleCanvasChange: setGlobalReferenceImage, which
\* comes back as the initialGlobalReferenceUrl prop
hostCanvasChange ==
    /\ UNCHANGED extVars
    /\ hostTimer /= NoTimer
    /\ hostTimer' = NoTimer
    /\ hostGlobalRef' = hostTimer
    /\ initPending' = (initPending \/ hostTimer /= hostGlobalRef)
    /\ UNCHANGED <<layerVars, drawVars, vpVars, docVars, storage, saveTimer,
                   emitTimer, hostEditBase, editPending, seedTimers, mergeTimer,
                   editorVars, last, opPushes, scen>>

\* a crop rectangle: left edge and width, in half pixels
NoCrop == [present |-> FALSE, x |-> 0, width |-> 0]

\* canvasSize and base are the size and the content of the base canvas; the
\* editor's canvases are one row of size pixels; sizes[i] is the width of
\* the ImageData stack[i]
OpenedConti == [open |-> TRUE, loaded |-> FALSE, raster |-> Blank,
                stack |-> <<>>, sizes |-> <<>>, index |-> -1,
                isDrawing |-> FALSE,
                points |-> <<>>, canvasSize |-> 0, base |-> Blank,
                tool |-> "pen", curvePoints |-> <<>>,
                cropStart |-> -1, cropRect |-> NoCrop,
                cropSave |-> FALSE, view |-> DefaultView,
                isScrubbyZooming |-> FALSE]
ClosedConti == [OpenedConti EXCEPT !.open = FALSE]
OpenedRefEd == [open |-> TRUE, loaded |-> FALSE, raster |-> Blank,
                stack |-> <<>>, index |-> -1, isDrawing |-> FALSE]
ClosedRefEd == [OpenedRefEd EXCEPT !.open = FALSE]

\* global reference file input: sets the reference and opens the
\* storyboard editor on it
handleGlobalRefUpload(url) ==
    /\ UNCHANGED <<canvasSize, meta, idleExt>>
    /\ globalReference' = [url |-> url, isVisible |-> TRUE]
    /\ conti' = OpenedConti
    /\ last' = Op("handleGlobalRefUpload", Null, 0)
    /\ UNCHANGED <<layerVars, drawVars, vpVars, canvasDimensions, editBase,
                   loadedStateRef, resizeDataRef, storage, hostVars,
                   initPending, editPending, seedTimers, mergeTimer, refEd,
                   opPushes, scen>>
    /\ SaveEffect(TRUE)
    /\ EmitEffect(TRUE)
    /\ PreviewEffect(FALSE)

\* onClose of the storyboard editor
closeContiEditor ==
    /\ UNCHANGED extVars
    /\ conti.open
    /\ conti' = ClosedConti
    /\ UNCHANGED <<layerVars, drawVars, vpVars, docVars, timerVars, refEd, last,
                   opPushes, scen>>

\* the state of a DrawingCanvas that has just been constructed
Remount ==
    /\ meta' = EmptyFn
    /\ draggingPoint' = NoDrag
    /\ preview' = <<>>
    /\ view' = DefaultView
    /\ editBaseVisible' = TRUE
    /\ lastTouchesRef' = 0
    /\ canvasSize' = EmptyFn
    /\ layers' = <<>>
    /\ activeLayerId' = Null
    /\ layerCounter' = 1
    /\ canvas' = EmptyFn
    /\ history' = EmptyFn
    /\ canvasDimensions' = DefaultDims
    /\ tool' = "pen"
    /\ isDrawing' = FALSE
    /\ pointsRef' = <<>>
    /\ lineStartPoint' = Null
    /\ ellipseStartPoint' = Null
    /\ curvePoints' = <<>>
    /\ isPanning' = FALSE
    /\ isScrubbyZooming' = FALSE
    /\ vanishingPoints' = <<>>
    /\ activeVPId' = Null
    /\ draggingVPId' = Null
    /\ globalReference' = NoGlobalRef
    /\ editBase' = Null
    /\ loadedStateRef' = NoLoaded
    /\ resizeDataRef' = NoResize
    /\ saveTimer' = FALSE
    /\ emitTimer' = TRUE
    /\ initPending' = TRUE
    /\ editPending' = FALSE
    /\ seedTimers' = {}
    /\ mergeTimer' = NoMerge
    /\ conti' = ClosedConti
    /\ refEd' = ClosedRefEd
    /\ opPushes' = -1
    /\ scen' = NoScen

\* App.handleConfirmReset with canvasAndCamera: clears the host's images and
\* the storage key, and remounts the canvas under a new key
handleConfirmReset ==
    /\ Remount
    /\ storage' = NoStorage
    /\ hostGlobalRef' = Null
    /\ hostEditBase' = Null
    /\ last' = Op("handleConfirmReset", Null, 0)
    /\ orphanEmit' = IF emitTimer
                     THEN Append(orphanEmit, Emitted(globalReference))
                     ELSE orphanEmit
    /\ UNCHANGED <<clock, hostTimer>>

\* the page is loaded again: the application starts over with the storage
reload ==
    /\ Remount
    /\ hostTimer' = NoTimer
    /\ hostGlobalRef' = Null
    /\ hostEditBase' = Null
    /\ last' = Op("reload", Null, 0)
    /\ orphanEmit' = <<>>
    /\ UNCHANGED <<clock, storage>>

(* ------------------------------ edit session --------------------------- *)
\* App.handleEditImage: the host hands an image over as the edit base
hostSetEditBase(url) ==
    /\ UNCHANGED extVars
    /\ hostEditBase' = url
    /\ editPending' = (editPending \/ url /= hostEditBase)
    /\ UNCHANGED <<layerVars, drawVars, vpVars, docVars, storage, saveTimer,
                   emitTimer, hostTimer, hostGlobalRef, initPending, seedTimers,
                   mergeTimer, editorVars, last, opPushes, scen>>

\* loadEditBase, the effect on editBaseImageUrl: entering a session clears
\* every layer canvas and resets the history to one blank entry per layer
loadEditBase ==
    /\ UNCHANGED <<canvasSize, meta, draggingPoint, view, orphanEmit,
                   lastTouchesRef>>
    /\ editPending
    /\ editPending' = FALSE
    /\ IF hostEditBase /= Null /\ ~Decodes(hostEditBase)
       \* the await rejects, and loadEditBase() is called without a catch
       THEN /\ UNCHANGED <<editBase, canvas, history, editBaseVisible, scen>>
            /\ last' = Failed("loadEditBase", FALSE)
       ELSE /\ IF hostEditBase /= Null
               THEN /\ editBase' = hostEditBase
                    /\ editBaseVisible' = TRUE
                    /\ canvas' = [k \in DOMAIN canvas |-> Blank]
                    /\ history' = [k \in Range(layers) \cap DOMAIN canvas |->
                                      HistoryState(<<Blank>>, 0)]
               ELSE /\ editBase' = Null
                    /\ UNCHANGED <<canvas, history, editBaseVisible>>
            /\ last' = Op("loadEditBase", Null, 0)
            /\ scen' = NoScen
    /\ UNCHANGED <<layers, activeLayerId, layerCounter, clock, drawVars, vpVars,
                   canvasDimensions, globalReference, loadedStateRef,
                   resizeDataRef, storage, saveTimer, emitTimer, hostVars,
                   initPending, seedTimers, mergeTimer, editorVars, opPushes>>
    /\ PreviewEffect(FALSE)

(* --------------------------------- resize ------------------------------ *)
\* handleResizeMouseDown with backupCanvasStateForResize
handleResizeMouseDown(direction) ==
    /\ UNCHANGED extVars
    /\ resizeDataRef' = [present |-> TRUE,
                         layerData |-> [k \in Range(layers) \cap DOMAIN canvas |->
                                           canvas[k]],
                         prev |-> canvasDimensions,
                         direction |-> direction,
                         globalRef |-> globalReference,
                         editBaseRef |-> editBase,
                         editBaseVisible |-> editBaseVisible]
    /\ last' = Op("handleResizeMouseDown", Null, 0)
    /\ UNCHANGED <<layerVars, drawVars, vpVars, canvasDimensions,
                   globalReference, editBase, loadedStateRef, timerVars,
                   editorVars, opPushes, scen>>

\* window mousemove while resizing, and the layout effect of the render that
\* follows: the canvases are redrawn from the backup and every history is
\* reset to the redrawn raster
resizeMouseMove(dx, dy) ==
    LET layerData == resizeDataRef.layerData
        redrawn == [k \in DOMAIN canvas |->
                       IF k \in DOMAIN layerData THEN layerData[k] ELSE Blank]
        direction == resizeDataRef.direction
        startW == resizeDataRef.prev.width
        startH == resizeDataRef.prev.height
        newWidth == IF direction = "b" THEN startW ELSE Clamped(startW, dx)
        newHeight == IF direction = "r" THEN startH ELSE Clamped(startH, dy)
    IN
    /\ UNCHANGED <<meta, idleExt>>
    /\ resizeDataRef.present
    /\ canvasDimensions' = [width |-> newWidth, height |-> newHeight]
    /\ canvas' = redrawn
    /\ canvasSize' = Render(canvas', canvasDimensions')
    /\ history' = [k \in DOMAIN layerData \cap DOMAIN canvas |->
                      HistoryState(<<redrawn[k]>>, 0)]
    /\ last' = OpArg("resizeMouseMove", Null, 0,
                     [away |-> canvasDimensions /= resizeDataRef.prev,
                      dx |-> dx, dy |-> dy])
    /\ scen' = NoScen
    /\ UNCHANGED <<layers, activeLayerId, layerCounter, clock, drawVars, vpVars,
                   globalReference, editBase, loadedStateRef, resizeDataRef,
                   storage, hostVars, initPending, editPending, seedTimers,
                   mergeTimer, editorVars, opPushes>>
    /\ SaveEffect(TRUE)
    /\ EmitEffect(TRUE)
    \* the layout effect paints the preview from the references backed up at
    \* mousedown
    /\ preview' = Composite(layers, meta, canvas', resizeDataRef.globalRef,
                            resizeDataRef.editBaseRef,
                            resizeDataRef.editBaseVisible)

\* a variant that scales the anchor points as it scales the vanishing points
resizeMouseUpScalingPoints ==
    LET old == resizeDataRef.prev
        f(q) == [q EXCEPT !.x = Rat(@.n * canvasDimensions.width,
                                    @.d * old.width),
                          !.y = Rat(@.n * canvasDimensions.height,
                                    @.d * old.height)]
    IN
    /\ UNCHANGED <<canvasSize, preview, idleExt>>
    /\ meta' = [k \in DOMAIN meta |->
                   [meta[k] EXCEPT !.points =
                       [i \in 1..Len(@) |-> f(@[i])]]]
    /\ resizeDataRef.present
    /\ resizeDataRef' = NoResize
    /\ vanishingPoints' =
           IF canvasDimensions /= old
           THEN ScaleVPs(vanishingPoints, old, canvasDimensions)
           ELSE vanishingPoints
    /\ last' = OpArg("resizeMouseUp", Null, 0,
                     [vps |-> vanishingPoints, prev |-> old])
    /\ UNCHANGED <<layerVars, drawVars, activeVPId, draggingVPId,
                   canvasDimensions,
                   globalReference, editBase, loadedStateRef, storage, hostVars,
                   initPending, editPending, seedTimers, mergeTimer, editorVars,
                   opPushes, scen>>
    /\ SaveEffect(canvasDimensions /= old)
    /\ EmitEffect(canvasDimensions /= old)

\* window mouseup while resizing: when the size is not the one the drag
\* started from, every vanishing point is scaled by new / old
resizeMouseUp ==
    /\ UNCHANGED extVars
    /\ resizeDataRef.present
    /\ resizeDataRef' = NoResize
    /\ vanishingPoints' =
           IF canvasDimensions /= resizeDataRef.prev
           THEN ScaleVPs(vanishingPoints, resizeDataRef.prev, canvasDimensions)
           ELSE vanishingPoints
    /\ last' = OpArg("resizeMouseUp", Null, 0,
                     [vps |-> vanishingPoints, prev |-> resizeDataRef.prev])
    /\ UNCHANGED <<layerVars, drawVars, activeVPId, draggingVPId,
                   canvasDimensions,
                   globalReference, editBase, loadedStateRef, storage, hostVars,
                   initPending, editPending, seedTimers, mergeTimer, editorVars,
                   opPushes, scen>>
    /\ SaveEffect(canvasDimensions /= resizeDataRef.prev)
    /\ EmitEffect(canvasDimensions /= resizeDataRef.prev)

(* --------------------------------- view ------------------------------- *)
\* the centre of the container, the anchor of the zoom buttons, and the
\* places of the pointer in the container
ContainerCentre == [x |-> Rat(400, 1), y |-> Rat(300, 1)]
Anchors == {[x |-> Rat(0, 1), y |-> Rat(0, 1)], ContainerCentre}

\* what a handler of the view leaves alone
ViewOnly(name) ==
    /\ last' = Op(name, Null, 0)
    /\ UNCHANGED <<canvasSize, meta, preview, draggingPoint, orphanEmit,
                   editBaseVisible, lastTouchesRef>>
    /\ UNCHANGED <<layerVars, drawVars, vpVars, docVars, timerVars,
                   editorVars, opPushes, scen>>

handleZoomButtonClick(direction) ==
    LET newZoom == IF direction = "in" THEN RMul(view.zoom, ZOOM_STEP)
                   ELSE RDiv(view.zoom, ZOOM_STEP)
        clampedZoom == ClampZoom(newZoom)
    IN /\ view' = [view EXCEPT
                      !.pan = AnchoredPan(view.pan, view.zoom, ContainerCentre,
                                          clampedZoom),
                      !.zoom = clampedZoom]
       /\ ViewOnly("handleZoomButtonClick")

resetView ==
    /\ view' = DefaultView
    /\ ViewOnly("resetView")

\* the rotate buttons (15 degrees either way, and back to 0) and the slider
setRotation(r) ==
    /\ view' = [view EXCEPT !.rotation = r]
    /\ ViewOnly("setRotation")

\* the wheel: with Alt it rotates by 2 degrees, without it zooms about the
\* pointer, and leaves the view alone when the zoom is at its limit
handleWheel(altKey, down, anchor) ==
    LET newZoom == IF down THEN RDiv(view.zoom, ZOOM_STEP)
                   ELSE RMul(view.zoom, ZOOM_STEP)
        clampedZoom == ClampZoom(newZoom)
    IN /\ view' = IF altKey
                  THEN [view EXCEPT !.rotation = @ + (IF down THEN -2 ELSE 2)]
                  ELSE IF clampedZoom = view.zoom THEN view
                  ELSE [view EXCEPT
                           !.pan = AnchoredPan(view.pan, view.zoom, anchor,
                                               clampedZoom),
                           !.zoom = clampedZoom]
       /\ ViewOnly("handleWheel")

\* handleMouseMove while scrubby zooming: the zoom is multiplied by 1.01^dx
scrubbyZoomMove(dx, mousePos) ==
    LET zoomFactor == IF dx >= 0 THEN RPow(Rat(101, 100), dx)
                      ELSE RPow(Rat(100, 101), 0 - dx)
        clampedZoom == ClampZoom(RMul(view.zoom, zoomFactor))
    IN /\ ~draggingPoint.present
       /\ isScrubbyZooming
       /\ view' = [view EXCEPT
                      !.pan = AnchoredPan(view.pan, view.zoom, mousePos,
                                          clampedZoom),
                      !.zoom = clampedZoom]
       /\ ViewOnly("scrubbyZoomMove")

\* a variant that moves the stored vanishing points along with the view
panMoveMovingVPs(dx, dy) ==
    /\ ~draggingPoint.present
    /\ ~isScrubbyZooming
    /\ isPanning
    /\ view' = [view EXCEPT !.pan = [x |-> RAdd(@.x, Rat(dx, 1)),
                                     y |-> RAdd(@.y, Rat(dy, 1))]]
    /\ vanishingPoints' =
           [i \in 1..Len(vanishingPoints) |->
               [vanishingPoints[i] EXCEPT !.x = RAdd(@, Rat(Max(dx, 0), 1)),
                                          !.y = RAdd(@, Rat(Max(dy, 0), 1))]]
    /\ last' = Op("panMove", Null, 0)
    /\ UNCHANGED <<canvasSize, meta, preview, draggingPoint, orphanEmit,
                   editBaseVisible, lastTouchesRef>>
    /\ UNCHANGED <<layerVars, drawVars, activeVPId, draggingVPId, docVars,
                   timerVars, editorVars, opPushes, scen>>

\* handleMouseMove while panning
panMove(dx, dy) ==
    /\ ~draggingPoint.present
    /\ ~isScrubbyZooming
    /\ isPanning
    /\ view' = [view EXCEPT !.pan = [x |-> RAdd(@.x, Rat(dx, 1)),
                                     y |-> RAdd(@.y, Rat(dy, 1))]]
    /\ ViewOnly("panMove")

\* handleTouchMove with two touches: the midpoint's move pans, the change of
\* the distance between the touches zooms about the midpoint
pinch(panDx, panDy, zoomFactor, midpoint) ==
    LET newPan == [x |-> RAdd(view.pan.x, Rat(panDx, 1)),
                   y |-> RAdd(view.pan.y, Rat(panDy, 1))]
        clampedZoom == ClampZoom(RMul(view.zoom, zoomFactor))
        shrink == RSub(Rat(1, 1), RDiv(clampedZoom, view.zoom))
    IN /\ lastTouchesRef >= 2
       /\ view' = [view EXCEPT
                      !.pan = [x |-> RAdd(newPan.x,
                                          RMul(RSub(midpoint.x, newPan.x),
                                               shrink)),
                               y |-> RAdd(newPan.y,
                                          RMul(RSub(midpoint.y, newPan.y),
                                               shrink))],
                      !.zoom = clampedZoom]
       /\ ViewOnly("pinch")

\* a variant of handleTouchMove that draws whenever a draw is in progress,
\* whatever the number of touch points
handleTouchMoveAlwaysDrawing(touches, c, panDx, panDy, zoomFactor, midpoint) ==
    IF isDrawing /\ tool \in BrushTools
    THEN draw(c) /\ lastTouchesRef' = touches
    ELSE /\ lastTouchesRef' = touches
         /\ last' = Op("handleTouchMove", Null, 0)
         /\ UNCHANGED <<canvasSize, meta, preview, draggingPoint, view,
                        orphanEmit, editBaseVisible>>
         /\ UNCHANGED <<layerVars, drawVars, vpVars, docVars, timerVars,
                        editorVars, opPushes, scen>>

\* handleTouchMove: with two touch points now and at the last touch event
\* the gesture pans and zooms; with one touch point and a draw in progress
\* it draws; the touch points are remembered in either case
handleTouchMove(touches, c, panDx, panDy, zoomFactor, midpoint) ==
    CASE touches >= 2 /\ lastTouchesRef >= 2 ->
           /\ touches = lastTouchesRef
           /\ pinch(panDx, panDy, zoomFactor, midpoint)
      [] ~(touches >= 2 /\ lastTouchesRef >= 2) /\ touches = 1 /\ isDrawing
         /\ (tool \in BrushTools
             \/ (tool = "perspective" /\ draggingVPId /= Null)) ->
           draw(c) /\ lastTouchesRef' = touches
      [] OTHER ->
           /\ lastTouchesRef' = touches
           /\ last' = Op("handleTouchMove", Null, 0)
           /\ UNCHANGED <<canvasSize, meta, preview, draggingPoint, view,
                          orphanEmit, editBaseVisible>>
           /\ UNCHANGED <<layerVars, drawVars, vpVars, docVars, timerVars,
                          editorVars, opPushes, scen>>

(* -------------------------- pointer coordinates ----------------------- *)
\* Math.cos and Math.sin of a quarter turn, in degrees
Turns == {0, 90, 180, -90}
Cos(deg) == CASE deg = 0 -> Rat(1, 1) [] deg \in {90, -90} -> Rat(0, 1)
            [] deg \in {180, -180} -> Rat(-1, 1)
Sin(deg) == CASE deg \in {0, 180, -180} -> Rat(0, 1) [] deg = 90 -> Rat(1, 1)
            [] deg = -90 -> Rat(-1, 1)

\* where the styles of the canvas container put the canvas point p: the
\* inner element is rotated about its centre, the outer one is scaled about
\* its top left corner and translated by the pan; the container's corner is
\* the origin of the screen
canvasToScreen(p, T, dims) ==
    LET cx == Rat(dims.width, 2)
        cy == Rat(dims.height, 2)
        tx == RSub(p.x, cx)
        ty == RSub(p.y, cy)
        cos == Cos(T.rotation)
        sin == Sin(T.rotation)
        rx == RAdd(RSub(RMul(tx, cos), RMul(ty, sin)), cx)
        ry == RAdd(RAdd(RMul(tx, sin), RMul(ty, cos)), cy)
    IN [x |-> RAdd(T.pan.x, RMul(T.zoom, rx)),
        y |-> RAdd(T.pan.y, RMul(T.zoom, ry))]

\* a variant that leaves the rotation of the canvas out
screenToCanvasUnrotated(client, T, dims, rounded) ==
    [x |-> Num(RDiv(Num(RSub(client.x, T.pan.x), rounded), T.zoom), rounded),
     y |-> Num(RDiv(Num(RSub(client.y, T.pan.y), rounded), T.zoom), rounded)]

\* getCoords of a pointer event at client, with the view T
screenToCanvas(client, T, dims, rounded) ==
    LET mouseX == Num(RDiv(Num(RSub(client.x, T.pan.x), rounded), T.zoom),
                      rounded)
        mouseY == Num(RDiv(Num(RSub(client.y, T.pan.y), rounded), T.zoom),
                      rounded)
        cos == Cos(0 - T.rotation)
        sin == Sin(0 - T.rotation)
        cx == Num(Rat(dims.width, 2), rounded)
        cy == Num(Rat(dims.height, 2), rounded)
        translatedX == Num(RSub(mouseX, cx), rounded)
        translatedY == Num(RSub(mouseY, cy), rounded)
        unrotatedX == Num(RSub(Num(RMul(translatedX, cos), rounded),
                               Num(RMul(translatedY, sin), rounded)), rounded)
        unrotatedY == Num(RAdd(Num(RMul(translatedX, sin), rounded),
                               Num(RMul(translatedY, cos), rounded)), rounded)
    IN [x |-> Num(RAdd(unrotatedX, cx), rounded),
        y |-> Num(RAdd(unrotatedY, cy), rounded)]

\* the numbers of a view or of a point, as the program holds them
FlPoint(q) == [x |-> Fl(q.x), y |-> Fl(q.y)]
FlView(T) == [zoom |-> Fl(T.zoom), pan |-> FlPoint(T.pan),
              rotation |-> T.rotation]

\* a pointer event over the place where the canvas point p is shown: what
\* getCoords returns for it, in exact arithmetic and in the arithmetic of
\* the program
pointerAt(p) ==
    LET T == FlView(view)
        q == FlPoint(p)
    IN
    /\ last' = OpArg("getCoords", Null, 0,
                     [p |-> p,
                      exact |-> screenToCanvas(
                                    canvasToScreen(p, view, canvasDimensions),
                                    view, canvasDimensions, FALSE),
                      q |-> q,
                      rounded |-> screenToCanvas(
                                      FlPoint(canvasToScreen(
                                                  q, T, canvasDimensions)),
                                      T, canvasDimensions, TRUE)])
    /\ UNCHANGED <<canvasSize, meta, preview, idleExt>>
    /\ UNCHANGED <<layerVars, drawVars, vpVars, docVars, timerVars,
                   editorVars, opPushes, scen>>

(* ------------------------ snapping a line to a VP --------------------- *)
AXIS_COLORS == {"#ef4444", "#22C55E", "#3b82f6"}
SNAP_THRESHOLD == 30
Sq(a) == a * a

\* the square of dist: of the distance from vp to the line through start
\* and current when these are more than 1 apart, of the distance from vp
\* to start otherwise; points are in whole pixels
DistanceSq(vp, start, current) ==
    LET dx == current.x - start.x
        dy == current.y - start.y
    IN IF Sq(dx) + Sq(dy) > 1
       THEN Rat(Sq(dy * vp.x - dx * vp.y + current.x * start.y
                   - current.y * start.x),
                Sq(dx) + Sq(dy))
       ELSE Rat(Sq(vp.x - start.x) + Sq(vp.y - start.y), 1)

\* the loop over the vanishing points from the i-th on: the index of
\* bestVP, best being the index found so far and 0 standing for null
Nearest(vps, start, current, i, best) ==
    IF i > Len(vps) THEN best
    ELSE Nearest(vps, start, current, i + 1,
                 IF best = 0 \/ RLess(DistanceSq(vps[i], start, current),
                                      DistanceSq(vps[best], start, current))
                 THEN i ELSE best)

\* a variant that reports the snap and leaves the end point at the cursor
getSnappedLineEndPointAtCursor(penColor, vps, start, current) ==
    LET best == Nearest(vps, start, current, 1, 0)
        unsnapped == [point |-> [x |-> Rat(current.x, 1),
                                 y |-> Rat(current.y, 1)],
                      snappedVp |-> Null]
    IN IF penColor \notin AXIS_COLORS \/ Len(vps) = 0 \/ best = 0
       THEN unsnapped
       ELSE [unsnapped EXCEPT !.snappedVp = vps[best].id]

\* getSnappedLineEndPoint: unitDir * projectionLength is
\* dir * (vecToCursor . dir) / mag^2
getSnappedLineEndPoint(penColor, vps, start, current) ==
    LET best == Nearest(vps, start, current, 1, 0)
        unsnapped == [point |-> [x |-> Rat(current.x, 1),
                                 y |-> Rat(current.y, 1)],
                      snappedVp |-> Null]
    IN IF penColor \notin AXIS_COLORS \/ Len(vps) = 0 \/ best = 0
       THEN unsnapped
       ELSE LET bestVP == vps[best]
                dirX == bestVP.x - start.x
                dirY == bestVP.y - start.y
                magSq == Sq(dirX) + Sq(dirY)
                dot == (current.x - start.x) * dirX
                       + (current.y - start.y) * dirY
            IN IF RLess(DistanceSq(bestVP, start, current),
                        Rat(Sq(SNAP_THRESHOLD), 1)) /\ magSq > 0
               THEN [point |-> [x |-> RAdd(Rat(start.x, 1),
                                           Rat(dirX * dot, magSq)),
                                y |-> RAdd(Rat(start.y, 1),
                                           Rat(dirY * dot, magSq))],
                     snappedVp |-> bestVP.id]
               ELSE unsnapped

\* draw and stopDrawing with the line tool: the end point of the line from
\* start to the pointer at current
snapLine(penColor, vps, start, current) ==
    /\ last' = OpArg("getSnappedLineEndPoint", Null, 0,
                     [penColor |-> penColor, vps |-> vps, start |-> start,
                      current |-> current,
                      result |-> getSnappedLineEndPoint(penColor, vps, start,
                                                        current)])
    /\ UNCHANGED <<canvasSize, meta, preview, idleExt>>
    /\ UNCHANGED <<layerVars, drawVars, vpVars, docVars, timerVars,
                   editorVars, opPushes, scen>>

(* ----------------------- bounding box of the sketches ----------------- *)
\* a scanned canvas has BoxSize rows of BoxSize + 1 pixels; its image data
\* is the set of the pixels <<x, y>> whose alpha is above 0
BoxWidth == BoxSize + 1
BoxHeight == BoxSize
\* let minX = Infinity
Infinity == BoxWidth + BoxHeight
NoBox == [present |-> FALSE, x |-> 0, y |-> 0, width |-> 0, height |-> 0]

\* the body of the loops over y and x, for a pixel with alpha above 0
Grown(box, x, y) ==
    [hasContent |-> TRUE,
     minX |-> IF x < box.minX THEN x ELSE box.minX,
     maxX |-> IF x > box.maxX THEN x ELSE box.maxX,
     minY |-> IF y < box.minY THEN y ELSE box.minY,
     maxY |-> IF y > box.maxY THEN y ELSE box.maxY]

\* the loops over y and x, from pixel k of the row order on (the box found
\* so far is bound to b, so that it is worked out once)
ScanPixels(data, k, box) ==
    IF k >= BoxWidth * BoxHeight THEN box
    ELSE LET x == k % BoxWidth
             y == k \div BoxWidth
         IN ScanPixels(data, k + 1,
                IF <<x, y>> \in data
                THEN CHOOSE r \in {Grown(b, x, y) : b \in {box}} : TRUE
                ELSE box)

\* the loop over the layers, from the i-th on; a layer without a canvas is
\* skipped
ScanLayers(sketchLayers, canvases, i, box) ==
    IF i > Len(sketchLayers) THEN box
    ELSE ScanLayers(sketchLayers, canvases, i + 1,
                    IF sketchLayers[i].id \in DOMAIN canvases
                    THEN ScanPixels(canvases[sketchLayers[i].id], 0, box)
                    ELSE box)

getSketchesBoundingBox(sketchLayers, canvases) ==
    LET box == ScanLayers(sketchLayers, canvases, 1,
                          [hasContent |-> FALSE, minX |-> Infinity,
                           minY |-> Infinity, maxX |-> -1, maxY |-> -1])
    IN IF ~box.hasContent THEN NoBox
       ELSE [present |-> TRUE, x |-> box.minX, y |-> box.minY,
             width |-> box.maxX - box.minX + 1,
             height |-> box.maxY - box.minY + 1]

\* a variant that passes every layer on
EveryLayer(ls) == ls

\* layers.filter(l => l.isVisible)
IsVisible(l) == l.isVisible
VisibleLayers(ls) == SelectSeq(ls, IsVisible)

\* the timeout callback of debouncedOnCanvasChange: the sketchBoundingBox it
\* hands to onCanvasChange, for the layers ls and the canvases of canvasRefs
sketchBoundingBox(ls, canvases) ==
    /\ last' = OpArg("getSketchesBoundingBox", Null, 0,
                     [layers |-> ls, canvases |-> canvases,
                      result |-> getSketchesBoundingBox(VisibleLayers(ls),
                                                        canvases)])
    /\ UNCHANGED <<canvasSize, meta, preview, idleExt>>
    /\ UNCHANGED <<layerVars, drawVars, vpVars, docVars, timerVars,
                   editorVars, opPushes, scen>>

(* ----------------------------- anchor points -------------------------- *)
\* setLayers(prev => prev.map(l => l.id === id ? changed : l))
MapLayer(m, id, changed) == [k \in DOMAIN m |-> IF k = id THEN changed ELSE m[k]]

\* handlePointMouseDown: the left button pressed on the handle of a point
handlePointMouseDown(layerId, pointId) ==
    /\ draggingPoint' = [present |-> TRUE, layerId |-> layerId,
                         pointId |-> pointId]
    /\ last' = Op("handlePointMouseDown", layerId, 0)
    /\ UNCHANGED <<canvasSize, meta, preview, view, orphanEmit,
                   editBaseVisible, lastTouchesRef>>
    /\ UNCHANGED <<layerVars, drawVars, vpVars, docVars, timerVars,
                   editorVars, opPushes, scen>>

\* handleMouseMove while a point is dragged
dragPoint(c) ==
    LET f(l) == [l EXCEPT !.points =
                    MovePoint(@, draggingPoint.pointId,
                              getCoords(c, canvasDimensions), canvasDimensions)]
    IN
    /\ draggingPoint.present
    /\ meta' = MapLayer(meta, draggingPoint.layerId,
                      f(meta[draggingPoint.layerId]))
    /\ last' = Op("dragPoint", draggingPoint.layerId, 0)
    /\ UNCHANGED <<canvasSize, idleExt>>
    /\ UNCHANGED <<layerVars, drawVars, vpVars, docVars, storage, hostVars,
                   initPending, editPending, seedTimers, mergeTimer, editorVars,
                   opPushes, scen>>
    /\ SaveEffect(TRUE)
    /\ EmitEffect(TRUE)
    /\ PreviewEffect(FALSE)

\* stopDrawing at the end of a point drag, with no stroke, pan or scrubby
\* zoom under way: the drag ends and the change is emitted
stopPointDrag ==
    /\ draggingPoint.present
    /\ tool /= "line" /\ ~isDrawing /\ ~isPanning /\ ~isScrubbyZooming
    /\ draggingPoint' = NoDrag
    /\ emitTimer' = TRUE
    /\ draggingVPId' = IF tool = "perspective" THEN Null ELSE draggingVPId
    /\ last' = Op("stopPointDrag", Null, 0)
    /\ UNCHANGED <<canvasSize, meta, preview, view, orphanEmit,
                   editBaseVisible, lastTouchesRef>>
    /\ UNCHANGED <<layerVars, drawVars, vanishingPoints, activeVPId, docVars,
                   storage, saveTimer, hostVars, initPending, editPending,
                   seedTimers, mergeTimer, editorVars, opPushes, scen>>

\* deletePoint: the points of that id leave every layer
deletePoint(pointId) ==
    /\ meta' = [k \in DOMAIN meta |->
                   [meta[k] EXCEPT !.points =
                       SelectSeq(@, LAMBDA q : q.id /= pointId)]]
    /\ last' = Op("deletePoint", Null, 0)
    /\ UNCHANGED <<canvasSize, idleExt>>
    /\ UNCHANGED <<layerVars, drawVars, vpVars, docVars, storage, hostVars,
                   initPending, editPending, seedTimers, mergeTimer, editorVars,
                   opPushes, scen>>
    /\ SaveEffect(TRUE)
    /\ EmitEffect(TRUE)
    /\ PreviewEffect(FALSE)

(* ------------------------- layer panel controls ------------------------ *)
\* blend modes and opacities offered by the layer panel
BlendModes == {"source-over", "multiply"}
Opacities == {50, 100}
\* names typed in the layer panel; the last one is blank after trim()
Names == {LayerName(1), <<"hero", 0>>, <<"", 0>>}

toggleVisibility(id) ==
    LET f(l) == [l EXCEPT !.isVisible = ~@]
    IN
    /\ meta' = MapLayer(meta, id, f(meta[id]))
    /\ last' = Op("toggleVisibility", id, 0)
    /\ UNCHANGED <<canvasSize, idleExt>>
    /\ UNCHANGED <<layerVars, drawVars, vpVars, docVars, storage, hostVars,
                   initPending, editPending, seedTimers, mergeTimer, editorVars,
                   opPushes, scen>>
    /\ SaveEffect(TRUE)
    /\ EmitEffect(TRUE)
    /\ PreviewEffect(FALSE)

\* a blank name leaves the layer as it is
handleLayerNameChange(id, newName) ==
    LET f(l) == IF newName[1] /= "" THEN [l EXCEPT !.name = newName] ELSE l
    IN
    /\ meta' = MapLayer(meta, id, f(meta[id]))
    /\ last' = OpArg("handleLayerNameChange", id, 0, meta)
    /\ UNCHANGED <<canvasSize, idleExt>>
    /\ UNCHANGED <<layerVars, drawVars, vpVars, docVars, storage, hostVars,
                   initPending, editPending, seedTimers, mergeTimer, editorVars,
                   opPushes, scen>>
    /\ SaveEffect(TRUE)
    /\ EmitEffect(TRUE)
    /\ PreviewEffect(FALSE)

\* triggerCharacterSetteiUpload(layerId) and the file picked in the input:
\* handleSetteiUpload, with the onload callback of its FileReader
handleSetteiUpload(layerId, url) ==
    LET f(l) == [l EXCEPT !.setteiImages = Append(@, SetteiImage(url, Null))]
    IN
    /\ UNCHANGED <<canvasSize, idleExt>>
    /\ UNCHANGED <<layerVars, drawVars, vpVars, docVars, storage, hostVars,
                   initPending, editPending, seedTimers, mergeTimer, editorVars,
                   opPushes, scen>>
    /\ IF Decodes(url)
       THEN /\ meta' = MapLayer(meta, layerId, f(meta[layerId]))
            /\ last' = Op("handleSetteiUpload", layerId, 0)
            /\ SaveEffect(TRUE)
            /\ EmitEffect(TRUE)
            /\ PreviewEffect(FALSE)
       \* the async onload callback rejects, and nothing catches it
       ELSE /\ last' = Failed("handleSetteiUpload", FALSE)
            /\ UNCHANGED <<meta, saveTimer, emitTimer, preview>>

handleBlendModeChange(id, blendMode) ==
    LET f(l) == [l EXCEPT !.blendMode = blendMode]
    IN
    /\ meta' = MapLayer(meta, id, f(meta[id]))
    /\ last' = Op("handleBlendModeChange", id, 0)
    /\ UNCHANGED <<canvasSize, idleExt>>
    /\ UNCHANGED <<layerVars, drawVars, vpVars, docVars, storage, hostVars,
                   initPending, editPending, seedTimers, mergeTimer, editorVars,
                   opPushes, scen>>
    /\ SaveEffect(TRUE)
    /\ EmitEffect(TRUE)
    /\ PreviewEffect(FALSE)

handleOpacityChange(id, opacity) ==
    LET f(l) == [l EXCEPT !.opacity = opacity]
    IN
    /\ meta' = MapLayer(meta, id, f(meta[id]))
    /\ last' = Op("handleOpacityChange", id, 0)
    /\ UNCHANGED <<canvasSize, idleExt>>
    /\ UNCHANGED <<layerVars, drawVars, vpVars, docVars, storage, hostVars,
                   initPending, editPending, seedTimers, mergeTimer, editorVars,
                   opPushes, scen>>
    /\ SaveEffect(TRUE)
    /\ EmitEffect(TRUE)
    /\ PreviewEffect(FALSE)

toggleGlobalRefVisibility ==
    /\ globalReference' = IF globalReference.url /= Null
                          THEN [globalReference EXCEPT !.isVisible = ~@]
                          ELSE globalReference
    /\ last' = Op("toggleGlobalRefVisibility", Null, 0)
    /\ UNCHANGED <<canvasSize, meta, idleExt>>
    /\ UNCHANGED <<layerVars, drawVars, vpVars, canvasDimensions, editBase,
                   loadedStateRef, resizeDataRef, storage, hostVars,
                   initPending, editPending, seedTimers, mergeTimer, editorVars,
                   opPushes, scen>>
    /\ SaveEffect(globalReference.url /= Null)
    /\ EmitEffect(globalReference.url /= Null)
    /\ PreviewEffect(FALSE)

toggleEditBaseVisibility ==
    /\ editBaseVisible' = IF editBase /= Null THEN ~editBaseVisible
                          ELSE editBaseVisible
    /\ last' = Op("toggleEditBaseVisibility", Null, 0)
    /\ UNCHANGED <<canvasSize, meta, draggingPoint, view, orphanEmit,
                   lastTouchesRef>>
    /\ UNCHANGED <<layerVars, drawVars, vpVars, docVars, timerVars, editorVars,
                   opPushes, scen>>
    /\ PreviewEffect(FALSE)

(* --------------------------- vanishing points -------------------------- *)
\* keydown Delete / Backspace
deleteActiveVP ==
    /\ UNCHANGED extVars
    /\ IF activeVPId /= Null
       THEN /\ vanishingPoints' =
                  SelectSeq(vanishingPoints, LAMBDA vp : vp.id /= activeVPId)
            /\ activeVPId' = Null
       ELSE UNCHANGED <<vanishingPoints, activeVPId>>
    /\ last' = Op("deleteActiveVP", Null, 0)
    /\ UNCHANGED <<layerVars, drawVars, draggingVPId, docVars, storage, hostVars,
                   initPending, editPending, seedTimers, mergeTimer, editorVars,
                   opPushes, scen>>
    /\ SaveEffect(activeVPId /= Null)
    /\ EmitEffect(activeVPId /= Null)

\* "clear vanishing points" button, shown when there is at least one
clearVanishingPoints ==
    /\ UNCHANGED extVars
    /\ Len(vanishingPoints) > 0
    /\ vanishingPoints' = <<>>
    /\ activeVPId' = Null
    /\ last' = Op("clearVanishingPoints", Null, 0)
    /\ UNCHANGED <<layerVars, drawVars, draggingVPId, docVars, storage, hostVars,
                   initPending, editPending, seedTimers, mergeTimer, editorVars,
                   opPushes, scen>>
    /\ SaveEffect(TRUE)
    /\ EmitEffect(TRUE)

(* ------------------ storyboard editor (ContiEditorModal) --------------- *)
\* a variant that pushes on top of the whole stack
ContiPushKeepingRedo(h, img) ==
    LET kept == Append(h.stack, img)
        newStack == IF Len(kept) > CONTI_MAX_HISTORY_STATES THEN Tail(kept)
                    ELSE kept
    IN HistoryState(newStack, Len(newStack) - 1)

\* ContiEditorModal.saveState's updater: one shift when the cap is exceeded
ContiPush(h, img) ==
    LET kept == Append(SubSeq(h.stack, 1, h.index + 1), img)
        newStack == IF Len(kept) > CONTI_MAX_HISTORY_STATES THEN Tail(kept)
                    ELSE kept
    IN HistoryState(newStack, Len(newStack) - 1)

\* saveState: the ImageData is as wide as the drawing canvas
ContiSave(e, img) ==
    LET h == ContiPush(HistoryState(e.stack, e.index), img)
        w == ContiPush(HistoryState(e.sizes, e.index), e.canvasSize)
    IN [e EXCEPT !.stack = h.stack, !.sizes = w.stack, !.index = h.index]

\* restoreState: putImageData(snapshot, 0, 0) on a canvas of size pixels
\* writes the snapshot's pixels that fall on the canvas and leaves the rest
\* of the canvas as it was
PutImageData(raster, snapshot, snapshotSize, size) ==
    (snapshot \cap 1..size) \cup {c \in raster : c > snapshotSize}

\* loadImage's img.onload: blank drawing surface, history of one blank entry
contiLoadImage ==
    /\ UNCHANGED extVars
    /\ conti.open /\ ~conti.loaded
    /\ conti' = [conti EXCEPT !.loaded = TRUE, !.raster = Blank,
                              !.stack = <<Blank>>, !.index = 0,
                              !.sizes = <<NumPixels>>,
                              !.canvasSize = NumPixels, !.base = Pixels,
                              !.tool = "pen", !.view = DefaultView]
    /\ UNCHANGED <<layerVars, drawVars, vpVars, docVars, timerVars, refEd, last,
                   opPushes, scen>>

\* handleMouseDown, button 0, brush tool
contiMouseDown(c) ==
    /\ UNCHANGED extVars
    /\ conti.open
    /\ conti.tool = "pen"
    /\ conti' = [ContiSave(conti, conti.raster) EXCEPT !.isDrawing = TRUE,
                                                       !.points = <<c>>]
    /\ UNCHANGED <<layerVars, drawVars, vpVars, docVars, timerVars, refEd, last,
                   opPushes, scen>>

\* handleMouseUp, brush tool
contiMouseUp ==
    /\ UNCHANGED extVars
    /\ conti.open
    /\ conti' = IF conti.isScrubbyZooming
                THEN [conti EXCEPT !.isScrubbyZooming = FALSE]
                ELSE IF conti.isDrawing
                THEN [conti EXCEPT !.raster = Paint(@, Range(conti.points))
                                                \cap 1..conti.canvasSize,
                                   !.isDrawing = FALSE, !.points = <<>>]
                ELSE conti
    /\ UNCHANGED <<layerVars, drawVars, vpVars, docVars, timerVars, refEd, last,
                   opPushes, scen>>

\* a variant that drops the snapshots above the one it returns to
contiUndoTruncating ==
    /\ UNCHANGED extVars
    /\ conti.open
    /\ conti' = IF conti.index > 0
                THEN [conti EXCEPT !.index = @ - 1,
                                   !.raster = conti.stack[conti.index],
                                   !.stack = SubSeq(@, 1, conti.index),
                                   !.sizes = SubSeq(@, 1, conti.index)]
                ELSE conti
    /\ UNCHANGED <<layerVars, drawVars, vpVars, docVars, timerVars, refEd, last,
                   opPushes, scen>>

contiUndo ==
    /\ UNCHANGED extVars
    /\ conti.open
    /\ conti' = IF conti.index > 0
                THEN [conti EXCEPT
                        !.index = @ - 1,
                        !.raster = PutImageData(@, conti.stack[conti.index],
                                                conti.sizes[conti.index],
                                                conti.canvasSize)]
                ELSE conti
    /\ UNCHANGED <<layerVars, drawVars, vpVars, docVars, timerVars, refEd, last,
                   opPushes, scen>>

contiRedo ==
    /\ UNCHANGED extVars
    /\ conti.open
    /\ conti' = IF conti.index < Len(conti.stack) - 1
                THEN [conti EXCEPT
                        !.index = @ + 1,
                        !.raster = PutImageData(@,
                                                conti.stack[conti.index + 2],
                                                conti.sizes[conti.index + 2],
                                                conti.canvasSize)]
                ELSE conti
    /\ UNCHANGED <<layerVars, drawVars, vpVars, docVars, timerVars, refEd, last,
                   opPushes, scen>>

\* handleClearCanvas: saveState, clear, saveState
contiClearCanvas ==
    /\ UNCHANGED extVars
    /\ conti.open
    /\ conti' = [ContiSave(ContiSave(conti, conti.raster), Blank)
                    EXCEPT !.raster = Blank]
    /\ UNCHANGED <<layerVars, drawVars, vpVars, docVars, timerVars, refEd, last,
                   opPushes, scen>>

\* tool buttons of the storyboard editor, and the effect with deps [tool]
\* that drops the crop rectangle when the tool has changed
contiSetTool(t) ==
    /\ UNCHANGED extVars
    /\ conti.open
    /\ conti' = [conti EXCEPT !.tool = t,
                              !.cropRect = IF t /= conti.tool THEN NoCrop
                                           ELSE @]
    /\ UNCHANGED <<layerVars, drawVars, vpVars, docVars, timerVars, refEd, last,
                   opPushes, scen>>

\* ContiEditorModal.resetView: the button and Ctrl + 0
contiResetView ==
    /\ UNCHANGED extVars
    /\ conti.open
    /\ conti' = [conti EXCEPT !.view = DefaultView]
    /\ UNCHANGED <<layerVars, drawVars, vpVars, docVars, timerVars, refEd, last,
                   opPushes, scen>>

\* ContiEditorModal.handleZoom: the zoom buttons, Ctrl + = and Ctrl + -
contiHandleZoom(direction) ==
    LET z == conti.view.zoom
        newZoom == IF direction = "in" THEN RMul(z, ZOOM_STEP)
                   ELSE RDiv(z, ZOOM_STEP)
        clampedZoom == ClampZoom(newZoom)
    IN /\ UNCHANGED extVars
       /\ conti.open
       /\ conti' = [conti EXCEPT
                       !.view.pan = AnchoredPan(@, z, ContainerCentre,
                                                clampedZoom),
                       !.view.zoom = clampedZoom]
       /\ UNCHANGED <<layerVars, drawVars, vpVars, docVars, timerVars, refEd, last,
                      opPushes, scen>>

\* ContiEditorModal.handleWheel: one zoom step about the pointer
contiHandleWheel(down, anchor) ==
    LET z == conti.view.zoom
        newZoom == IF down THEN RDiv(z, ZOOM_STEP) ELSE RMul(z, ZOOM_STEP)
        clampedZoom == ClampZoom(newZoom)
    IN /\ UNCHANGED extVars
       /\ conti.open
       /\ conti' = [conti EXCEPT
                       !.view.pan = AnchoredPan(@, z, anchor, clampedZoom),
                       !.view.zoom = clampedZoom]
       /\ UNCHANGED <<layerVars, drawVars, vpVars, docVars, timerVars, refEd, last,
                      opPushes, scen>>

\* ContiEditorModal.handleMouseDown, Alt + button 2
contiScrubDown ==
    /\ UNCHANGED extVars
    /\ conti.open
    /\ conti' = [conti EXCEPT !.isScrubbyZooming = TRUE]
    /\ UNCHANGED <<layerVars, drawVars, vpVars, docVars, timerVars, refEd, last,
                   opPushes, scen>>

\* ContiEditorModal.handleMouseMove while scrubby zooming: the zoom is
\* multiplied by 1.01^dx, and the pan follows unless the zoom stays
contiScrubMove(dx, mousePos) ==
    LET z == conti.view.zoom
        zoomFactor == IF dx >= 0 THEN RPow(Rat(101, 100), dx)
                      ELSE RPow(Rat(100, 101), 0 - dx)
        clampedZoom == ClampZoom(RMul(z, zoomFactor))
    IN /\ UNCHANGED extVars
       /\ conti.open /\ conti.isScrubbyZooming
       /\ conti' = IF clampedZoom = z THEN conti
                   ELSE [conti EXCEPT
                           !.view.pan = AnchoredPan(@, z, mousePos,
                                                    clampedZoom),
                           !.view.zoom = clampedZoom]
       /\ UNCHANGED <<layerVars, drawVars, vpVars, docVars, timerVars, refEd, last,
                      opPushes, scen>>

\* handleMouseDown, button 0, curve tool: saveState, then the point is
\* collected or, on the 4th click, the cubic is drawn
contiCurveDown(c) ==
    LET saved == ContiSave(conti, conti.raster)
    IN
    /\ UNCHANGED extVars
    /\ conti.open /\ conti.tool = "curve"
    /\ conti' = IF Len(conti.curvePoints) < 3
                THEN [saved EXCEPT !.curvePoints = Append(@, c)]
                ELSE [saved EXCEPT
                         !.raster = Paint(@, CurvePixels(
                                              Cubic(conti.curvePoints, c)))
                                        \cap 1..conti.canvasSize,
                         !.curvePoints = <<>>]
    /\ UNCHANGED <<layerVars, drawVars, vpVars, docVars, timerVars, refEd, last,
                   opPushes, scen>>

\* handleMouseDown, button 0, crop tool: p is the pointer's canvas
\* coordinate in half pixels
contiCropDown(p) ==
    /\ UNCHANGED extVars
    /\ conti.open /\ conti.tool = "crop"
    /\ conti' = [conti EXCEPT !.cropStart = p, !.cropRect = NoCrop]
    /\ UNCHANGED <<layerVars, drawVars, vpVars, docVars, timerVars, refEd, last,
                   opPushes, scen>>

\* handleMouseUp, crop tool: a rectangle wider than one pixel is kept
contiCropUp(p) ==
    LET start == conti.cropStart
        x == IF start < p THEN start ELSE p
        width == IF start < p THEN p - start ELSE start - p
    IN
    /\ UNCHANGED extVars
    /\ conti.open /\ conti.tool = "crop" /\ start /= -1
    /\ conti' = [conti EXCEPT
                    !.cropStart = -1,
                    !.cropRect = IF width > 2
                                 THEN [present |-> TRUE, x |-> x,
                                       width |-> width]
                                 ELSE @]
    /\ UNCHANGED <<layerVars, drawVars, vpVars, docVars, timerVars, refEd, last,
                   opPushes, scen>>

\* Cancel button of the crop panel, shown while the crop tool is selected
contiCancelCrop ==
    /\ UNCHANGED extVars
    /\ conti.open /\ conti.tool = "crop"
    /\ conti' = [conti EXCEPT !.cropRect = NoCrop]
    /\ last' = OpArg("contiCancelCrop", Null, 0, conti.cropRect)
    /\ UNCHANGED <<layerVars, drawVars, vpVars, docVars, timerVars, refEd,
                   opPushes, scen>>

\* a variant of the Escape branch that also wipes the drawing surface
contiEscapeClearing ==
    /\ UNCHANGED extVars
    /\ conti.open
    /\ conti' = [conti EXCEPT !.cropRect = NoCrop, !.cropStart = -1,
                              !.curvePoints = <<>>, !.raster = Blank]
    /\ last' = OpArg("contiEscape", Null, 0, conti.cropRect)
    /\ UNCHANGED <<layerVars, drawVars, vpVars, docVars, timerVars, refEd,
                   opPushes, scen>>

\* the editor's handleKeyDown, e.key === 'Escape': with the crop tool the
\* rectangle and the drag's start are dropped; the collected curve points
\* are dropped with any tool
contiEscape ==
    /\ UNCHANGED extVars
    /\ conti.open
    /\ conti' = [conti EXCEPT
                    !.cropRect = IF conti.tool = "crop" THEN NoCrop ELSE @,
                    !.cropStart = IF conti.tool = "crop" THEN -1 ELSE @,
                    !.curvePoints = <<>>]
    /\ last' = OpArg("contiEscape", Null, 0, conti.cropRect)
    /\ UNCHANGED <<layerVars, drawVars, vpVars, docVars, timerVars, refEd,
                   opPushes, scen>>

\* canvas.width = width: the conversion to an unsigned long drops the
\* fraction
Truncated(width) == width \div 2

\* Math.round(width)
Rounded(width) == (width + 1) \div 2

\* drawImage(source, x, y, width, height, 0, 0, width, height) on a canvas
\* of Truncated(width) pixels: pixel j of the copy takes its colour from the
\* source pixels that the window [x + j - 1, x + j] overlaps
CropPixels(raster, x, width) ==
    {j \in 1..Truncated(width) :
        \E c \in raster : 2 * c - 2 < x + 2 * j /\ x + 2 * j - 2 < 2 * c}

\* handleApplyCrop
contiApplyCrop ==
    LET r == conti.cropRect
        saved == ContiSave(conti, conti.raster)
    IN
    /\ UNCHANGED extVars
    /\ conti.open /\ r.present
    /\ conti' = IF r.width < 2
                THEN [saved EXCEPT !.cropRect = NoCrop]
                ELSE [saved EXCEPT
                        !.canvasSize = Rounded(r.width),
                        !.base = CropPixels(conti.base, r.x, r.width),
                        !.raster = CropPixels(conti.raster, r.x, r.width),
                        !.cropRect = NoCrop,
                        !.tool = "pen",
                        !.cropSave = TRUE,
                        !.view = DefaultView]
    /\ last' = OpArg("contiApplyCrop", Null, 0,
                     [x |-> r.x, width |-> r.width,
                      canvasSize |-> conti.canvasSize, base |-> conti.base,
                      raster |-> conti.raster])
    /\ UNCHANGED <<layerVars, drawVars, vpVars, docVars, timerVars, refEd,
                   opPushes, scen>>

\* the 100 ms timer of handleApplyCrop: saveState
contiCropSaved ==
    /\ UNCHANGED extVars
    /\ conti.open /\ conti.cropSave
    /\ conti' = [ContiSave(conti, conti.raster) EXCEPT !.cropSave = FALSE]
    /\ UNCHANGED <<layerVars, drawVars, vpVars, docVars, timerVars, refEd, last,
                   opPushes, scen>>

(* ------------- reference-image editor (ReferenceImageEditorModal) ------ *)
\* a variant of pushHistory that takes the index before the shift
RefPushStaleIndex(h, img) ==
    LET kept == Append(SubSeq(h.stack, 1, h.index + 1), img)
        newStack == IF Len(kept) > REF_MAX_HISTORY THEN Tail(kept) ELSE kept
    IN HistoryState(newStack, Len(kept) - 1)

\* pushHistory: splice above the index, push, one shift above 50 entries
RefPush(h, img) ==
    LET kept == Append(SubSeq(h.stack, 1, h.index + 1), img)
        newStack == IF Len(kept) > REF_MAX_HISTORY THEN Tail(kept) ELSE kept
    IN HistoryState(newStack, Len(newStack) - 1)

RefSave(e, img) ==
    LET h == RefPush(HistoryState(e.stack, e.index), img)
    IN [e EXCEPT !.stack = h.stack, !.index = h.index]

\* "edit" button of the edit-base image
openReferenceEditor ==
    /\ UNCHANGED extVars
    /\ editBase /= Null
    /\ ~refEd.open
    /\ refEd' = OpenedRefEd
    /\ UNCHANGED <<layerVars, drawVars, vpVars, docVars, timerVars, conti, last,
                   opPushes, scen>>

\* img.onload of the open effect: the image on white, history emptied, then
\* pushHistory
refLoadImage ==
    /\ UNCHANGED extVars
    /\ refEd.open /\ ~refEd.loaded
    /\ refEd' = RefSave([refEd EXCEPT !.loaded = TRUE, !.raster = Pixels,
                                      !.stack = <<>>, !.index = -1], Pixels)
    /\ UNCHANGED <<layerVars, drawVars, vpVars, docVars, timerVars, conti, last,
                   opPushes, scen>>

\* handleMouseDown: every button
refMouseDown ==
    /\ UNCHANGED extVars
    /\ refEd.open
    /\ refEd' = [RefSave(refEd, refEd.raster) EXCEPT !.isDrawing = TRUE]
    /\ UNCHANGED <<layerVars, drawVars, vpVars, docVars, timerVars, conti, last,
                   opPushes, scen>>

\* handleMouseMove: erases to white along the move
refMouseMove(c) ==
    /\ UNCHANGED extVars
    /\ refEd.open /\ refEd.isDrawing
    /\ refEd' = [refEd EXCEPT !.raster = Erase(@, {c})]
    /\ UNCHANGED <<layerVars, drawVars, vpVars, docVars, timerVars, conti, last,
                   opPushes, scen>>

refMouseUp ==
    /\ UNCHANGED extVars
    /\ refEd.open
    /\ refEd' = [refEd EXCEPT !.isDrawing = FALSE]
    /\ UNCHANGED <<layerVars, drawVars, vpVars, docVars, timerVars, conti, last,
                   opPushes, scen>>

refUndo ==
    /\ UNCHANGED extVars
    /\ refEd.open
    /\ refEd' = IF refEd.index > 0
                THEN [refEd EXCEPT !.index = @ - 1,
                                   !.raster = refEd.stack[refEd.index]]
                ELSE refEd
    /\ UNCHANGED <<layerVars, drawVars, vpVars, docVars, timerVars, conti, last,
                   opPushes, scen>>

refRedo ==
    /\ UNCHANGED extVars
    /\ refEd.open
    /\ refEd' = IF refEd.index < Len(refEd.stack) - 1
                THEN [refEd EXCEPT !.index = @ + 1,
                                   !.raster = refEd.stack[refEd.index + 2]]
                ELSE refEd
    /\ UNCHANGED <<layerVars, drawVars, vpVars, docVars, timerVars, conti, last,
                   opPushes, scen>>

(* ------------------------------ initial state -------------------------- *)
\* the application as constructed, before any effect has run
Init ==
    /\ layers = <<>>
    /\ activeLayerId = Null
    /\ layerCounter = 1
    /\ clock = 1
    /\ canvas = EmptyFn
    /\ history = EmptyFn
    /\ canvasDimensions = DefaultDims
    /\ tool = "pen"
    /\ isDrawing = FALSE
    /\ pointsRef = <<>>
    /\ lineStartPoint = Null
    /\ ellipseStartPoint = Null
    /\ curvePoints = <<>>
    /\ isPanning = FALSE
    /\ isScrubbyZooming = FALSE
    /\ vanishingPoints = <<>>
    /\ activeVPId = Null
    /\ draggingVPId = Null
    /\ globalReference = NoGlobalRef
    /\ editBase = Null
    /\ loadedStateRef = NoLoaded
    /\ resizeDataRef = NoResize
    /\ storage = NoStorage
    /\ saveTimer = FALSE
    /\ emitTimer = TRUE
    /\ hostTimer = NoTimer
    /\ hostGlobalRef = Null
    /\ hostEditBase = Null
    /\ initPending = TRUE
    /\ editPending = FALSE
    /\ seedTimers = {}
    /\ mergeTimer = NoMerge
    /\ conti = ClosedConti
    /\ refEd = ClosedRefEd
    /\ canvasSize = EmptyFn
    /\ meta = EmptyFn
    /\ draggingPoint = NoDrag
    /\ preview = <<>>
    /\ view = DefaultView
    /\ orphanEmit = <<>>
    /\ editBaseVisible = TRUE
    /\ lastTouchesRef = 0
    /\ last = [op |-> "construct", id |-> Null, n |-> 0, arg |-> Null,
               layers |-> <<>>, active |-> Null]
    /\ opPushes = -1
    /\ downs = 0
    /\ keys = 0
    /\ scen = NoScen

(* ------------------------- inputs and schedules ------------------------ *)
\* the canvas receives input once it is mounted and while no editor modal
\* covers it
CanvasInput == ~initPending /\ ~conti.open /\ ~refEd.open

Quiet == UNCHANGED <<downs, keys>>
Down == downs' = downs + 1 /\ UNCHANGED keys
Key == keys' = keys + 1 /\ UNCHANGED downs

ActiveHistLen == Len(HistoryOf(history, activeLayerId).stack)

Mount == clock <= MaxClock /\ initializeCanvas /\ Quiet
Seed == \E t \in seedTimers : seedHistory(t) /\ Quiet
Restore == restoreCanvases /\ Quiet
PointerDown == \E ptr \in Pointers, c \in Pixels :
                  /\ downs < MaxDowns /\ CanvasInput
                  /\ startDrawing(ptr, c) /\ Down
PrimaryDown == \E ptr \in {"left", "touch1"}, c \in Pixels :
                  /\ downs < MaxUndoDowns /\ CanvasInput
                  /\ startDrawing(ptr, c) /\ Down
PointerMove == \E c \in Pixels : handleMouseMove(c) /\ Quiet
PointerUp == \E c \in Pixels : stopDrawing(c) /\ Quiet
Undo == handleUndo /\ Quiet
Redo == handleRedo /\ Quiet
SelectTool == \E t \in DrawTools : setTool(t) /\ Quiet
SaveFire == saveToStorage /\ Quiet
\* timers of equal delay fire in the order they were started: a timer left
\* by an unmounted canvas runs before the timer of the canvas that replaced it
EmitFire == orphanEmit = <<>> /\ emitCanvasChange /\ Quiet
OrphanFire == orphanCanvasChange /\ Quiet
HostFire == hostCanvasChange /\ Quiet

(* --------------------- drawing with every tool and pointer ------------- *)
NextDraw == Mount \/ Seed \/ PointerDown \/ PointerMove \/ PointerUp
            \/ SelectTool

SpecDraw == Init /\ [][NextDraw]_vars

(* ----------------- drawing on one layer, undo and redo ----------------- *)
NextUndo == Mount \/ Seed \/ PrimaryDown \/ PointerMove \/ PointerUp
            \/ Undo \/ Redo \/ SelectTool

SpecUndo == Init /\ [][NextUndo]_vars

(* ------------------------ filling the histories ------------------------ *)
\* Structural inputs come first, while every history is still fresh; then
\* pen strokes on one pixel of the surface that has the input; undo and redo
\* once the stack of that surface is full and holds no blank entry; clear
\* while the full stack starts with a blank entry and nothing is undone.
Fresh == /\ seedTimers = {} /\ ~isDrawing
         /\ \A id \in DOMAIN history : Len(history[id].stack) <= 1
Settled == CanvasInput /\ seedTimers = {} /\ ~loadedStateRef.present
           /\ ~editPending /\ ~resizeDataRef.present
Full == ActiveHistLen = MAX_HISTORY_STATES
ContiFull == Len(conti.stack) = CONTI_MAX_HISTORY_STATES
RefFull == Len(refEd.stack) = REF_MAX_HISTORY

CapDown == Settled /\ ~isDrawing /\ startDrawing("left", 1) /\ Quiet
CapUp == CanvasInput /\ isDrawing /\ stopDrawing(1) /\ Quiet
Drawn == Blank \notin Range(HistoryOf(history, activeLayerId).stack)
ContiDrawn == Blank \notin Range(conti.stack)
CapUndo == Settled /\ ~isDrawing /\ Full /\ Drawn /\ handleUndo /\ Quiet
CapRedo == Settled /\ ~isDrawing /\ Full /\ Drawn /\ handleRedo /\ Quiet
CapClear == /\ Settled /\ ~isDrawing /\ Full
            /\ HistoryOf(history, activeLayerId).stack[1] = Blank
            /\ HistoryOf(history, activeLayerId).index = ActiveHistLen - 1
            /\ clearActiveLayer /\ Quiet
CapSave == Fresh /\ saveToStorage /\ Quiet
CapAddLayer == /\ Fresh /\ Settled /\ keys < MaxCapKeys /\ clock <= MaxClock
               /\ addSketchLayer /\ Key
CapResizeDown == /\ Fresh /\ Settled /\ keys < MaxCapKeys
                 /\ handleResizeMouseDown("br") /\ Key
CapResizeMove == \E d \in {-900, 0} :
                     /\ resizeMouseMove(d, d)
                     /\ canvasDimensions' /= canvasDimensions
                     /\ Quiet
CapResizeUp == resizeMouseUp /\ Quiet
CapReload == /\ Fresh /\ Settled /\ keys < MaxCapKeys /\ storage.present
             /\ reload /\ Key
CapEditSession == /\ Fresh /\ Settled /\ keys < MaxCapKeys
                  /\ \E url \in Urls : url /= hostEditBase /\ hostSetEditBase(url)
                  /\ Key
LoadEditBase == loadEditBase /\ Quiet
OpenRef == Fresh /\ Settled /\ keys < MaxCapKeys /\ openReferenceEditor /\ Key
RefLoad == refLoadImage /\ Quiet
RefDown == refEd.loaded /\ ~refEd.isDrawing /\ refMouseDown /\ Quiet
RefMove == refMouseMove(1) /\ Quiet
RefUp == refEd.isDrawing /\ refMouseUp /\ Quiet
RefUndo == ~refEd.isDrawing /\ RefFull /\ refUndo /\ Quiet
RefRedo == ~refEd.isDrawing /\ RefFull /\ refRedo /\ Quiet
CapUpload == /\ Fresh /\ Settled /\ keys < MaxCapKeys
             /\ \E url \in Urls : handleGlobalRefUpload(url)
             /\ Key
ContiLoad == contiLoadImage /\ Quiet
ContiDown == conti.loaded /\ ~conti.isDrawing /\ contiMouseDown(1) /\ Quiet
ContiUp == conti.isDrawing /\ contiMouseUp /\ Quiet
ContiUndo == ~conti.isDrawing /\ ContiFull /\ ContiDrawn /\ contiUndo /\ Quiet
ContiRedo == ~conti.isDrawing /\ ContiFull /\ ContiDrawn /\ contiRedo /\ Quiet
ContiClear == /\ ~conti.isDrawing /\ ContiFull /\ conti.stack[1] = Blank
              /\ conti.index = Len(conti.stack) - 1
              /\ contiClearCanvas /\ Quiet

NextCap == Mount \/ Seed \/ Restore \/ CapSave
           \/ CapDown \/ CapUp \/ CapUndo \/ CapRedo \/ CapClear
           \/ CapAddLayer \/ CapResizeDown \/ CapResizeMove \/ CapResizeUp
           \/ CapReload \/ CapEditSession \/ LoadEditBase
           \/ OpenRef \/ RefLoad \/ RefDown \/ RefMove \/ RefUp
           \/ RefUndo \/ RefRedo
           \/ CapUpload \/ ContiLoad \/ ContiDown \/ ContiUp
           \/ ContiUndo \/ ContiRedo \/ ContiClear

SpecCap == Init /\ [][NextCap]_vars

(* ------------------------- layers and the document --------------------- *)
\* the 0 ms seeding timers run before the next click
LayerInput == CanvasInput /\ seedTimers = {}
AddLayer == clock <= MaxClock /\ LayerInput /\ addSketchLayer /\ Quiet
DeleteLayer == \E id \in Range(layers) : LayerInput /\ deleteLayer(id) /\ Quiet
MoveLayer == \E id \in Range(layers), direction \in {"up", "down"} :
                LayerInput /\ moveLayer(id, direction) /\ Quiet
SelectLayer == \E id \in Range(layers) :
                  /\ LayerInput /\ id /= activeLayerId
                  /\ setActiveLayerId(id) /\ Quiet
MergeDown == \E id \in Range(layers) :
                /\ LayerInput /\ ~mergeTimer.present
                /\ mergeLayerDown(id) /\ Quiet
MergeDeferred == mergeDeferred /\ Quiet
NextLayers == Mount \/ Seed \/ AddLayer \/ DeleteLayer \/ MoveLayer
              \/ SelectLayer \/ MergeDown \/ MergeDeferred

SpecLayers == Init /\ [][NextLayers]_vars

\* no effect, 0 ms timer or merge callback is pending
LayersQuiescent == ~initPending /\ seedTimers = {} /\ ~mergeTimer.present

DocAddLayer == keys < MaxDocKeys /\ clock <= MaxClock /\ CanvasInput
               /\ addSketchLayer /\ Key
DocDeleteLayer == \E id \in Range(layers) :
                     /\ keys < MaxDocKeys /\ CanvasInput
                     /\ deleteLayer(id) /\ Key
DocMoveLayer == \E id \in Range(layers), direction \in {"up", "down"} :
                   /\ keys < MaxDocKeys /\ CanvasInput
                   /\ moveLayer(id, direction) /\ Key
DocMergeDown == \E id \in Range(layers) :
                   /\ keys < MaxDocKeys /\ CanvasInput /\ ~mergeTimer.present
                   /\ mergeLayerDown(id) /\ Key
DocUpload == /\ keys < MaxDocKeys /\ CanvasInput
             /\ \E url \in Urls : handleGlobalRefUpload(url)
             /\ Key
CloseConti == closeContiEditor /\ Quiet
DocReset == keys < MaxDocKeys /\ ~initPending /\ handleConfirmReset /\ Key
DocReload == /\ keys < MaxDocKeys /\ ~initPending /\ storage.present
             /\ reload /\ Key

NextDoc == Mount \/ Seed \/ Restore \/ SaveFire \/ EmitFire \/ HostFire
           \/ DocAddLayer \/ DocDeleteLayer \/ DocMoveLayer \/ DocMergeDown
           \/ MergeDeferred \/ DocUpload \/ CloseConti \/ DocReset
           \/ DocReload \/ OrphanFire

SpecDoc == Init /\ [][NextDoc]_vars

(* ------------------- the global reference and the host ----------------- *)
\* layers are added and strokes are drawn first; then the global reference
\* is set, replaced, hidden or shown (counted by keys) while the save,
\* emission and host timers run
RfAddLayer == /\ keys = 0 /\ clock <= MaxClock /\ LayerInput /\ ~isDrawing
              /\ addSketchLayer /\ Quiet
RfDown == \E c \in Pixels :
             /\ keys = 0 /\ downs < MaxRefDowns /\ LayerInput /\ ~isDrawing
             /\ startDrawing("left", c) /\ Down
RfUp == \E c \in Pixels : CanvasInput /\ isDrawing /\ stopDrawing(c) /\ Quiet
RfUpload == \E url \in Urls :
               /\ keys < MaxRefKeys /\ LayerInput /\ ~isDrawing
               /\ handleGlobalRefUpload(url) /\ Key
RfToggle == /\ keys < MaxRefKeys /\ LayerInput /\ ~isDrawing
            /\ globalReference.url /= Null
            /\ toggleGlobalRefVisibility /\ Key

NextReference == Mount \/ Seed \/ Restore \/ SaveFire \/ EmitFire \/ HostFire
                 \/ RfAddLayer \/ RfDown \/ RfUp \/ RfUpload \/ RfToggle
                 \/ CloseConti

SpecReference == Init /\ [][NextReference]_vars

\* C34: from the first change of the global reference on, when only the
\* reference is set, replaced, hidden or shown and the timers run (the
\* emission, the host's timer and the initialGlobalReferenceUrl it passes
\* back included), the layer list, every layer's raster, every layer's
\* history, the vanishing points and the canvas dimensions stay as they are
C34_ReferenceKeepsDocument ==
    [][keys' >= 1 => UNCHANGED <<layers, canvas, history, vanishingPoints,
                                canvasDimensions>>]_vars

(* ------------------------------ persistence ---------------------------- *)
NextPersist == Mount \/ Seed \/ PrimaryDown \/ PointerMove \/ PointerUp
               \/ SelectTool \/ SaveFire

SpecPersist == Init /\ [][NextPersist]_vars

(* ---------------------------- vanishing points ------------------------- *)
SelectPerspective == tool /= "perspective" /\ setTool("perspective") /\ Quiet
VPDown == \E c \in Pixels :
             /\ downs < MaxDowns /\ CanvasInput /\ tool = "perspective"
             /\ startDrawing("left", c) /\ Down
VPMove == \E c \in Pixels :
             tool = "perspective" /\ handleMouseMove(c) /\ Quiet
VPUp == \E c \in Pixels : tool = "perspective" /\ stopDrawing(c) /\ Quiet
DeleteVP == activeVPId /= Null /\ deleteActiveVP /\ Quiet
ClearVPs == clearVanishingPoints /\ Quiet

NextVP == Mount \/ Seed \/ SelectPerspective \/ VPDown \/ VPMove \/ VPUp
          \/ DeleteVP \/ ClearVPs

SpecVP == Init /\ [][NextVP]_vars

(* ------------------- dragging a vanishing point ------------------------ *)
\* presses, moves and releases of the primary button with the perspective
\* tool and the pen, and tool switches at any moment; in this specification
\* keys is 1 while the button is held down
DgTool == \E t \in {"pen", "perspective"} : CanvasInput /\ setTool(t) /\ Quiet
DgDown == \E c \in Pixels :
             /\ downs < MaxDragDowns /\ keys = 0 /\ LayerInput
             /\ clock <= MaxClock
             /\ startDrawing("left", c)
             /\ downs' = downs + 1 /\ keys' = 1
DgMove == \E c \in Pixels : CanvasInput /\ handleMouseMove(c) /\ Quiet
DgUp == \E c \in Pixels :
           /\ keys = 1 /\ CanvasInput /\ stopDrawing(c)
           /\ keys' = 0 /\ UNCHANGED downs

NextDrag == Mount \/ Seed \/ DgTool \/ DgDown \/ DgMove \/ DgUp

SpecDrag == Init /\ [][NextDrag]_vars

\* C35: once the pointer has been released no vanishing point is in the
\* dragging state, whatever tool was selected during the drag, so that a
\* pointer move changes a vanishing point only while the button that
\* selected or created it is held
C35_DragEndsWithRelease == keys = 0 => draggingVPId = Null

(* --------------------- cropping in the storyboard editor --------------- *)
\* pointer coordinates of a crop drag, in half pixels, inside the canvas
CropCoords == 0..(2 * NumPixels)
CropOpen == /\ keys = 0 /\ CanvasInput /\ seedTimers = {}
            /\ \E url \in Urls : handleGlobalRefUpload(url)
            /\ Key
CropStroke == \E c \in Pixels :
                 /\ downs < MaxCropDowns /\ conti.loaded /\ ~conti.isDrawing
                 /\ ~conti.cropSave /\ contiMouseDown(c) /\ Down
CropStrokeUp == conti.isDrawing /\ contiMouseUp /\ Quiet
CropTool == \E t \in {"pen", "crop"} :
               /\ t /= conti.tool /\ conti.loaded /\ ~conti.isDrawing
               /\ ~conti.cropSave /\ contiSetTool(t) /\ Quiet
CropDown == \E p \in CropCoords :
               /\ keys <= MaxCropKeys /\ conti.loaded /\ ~conti.cropSave
               /\ ~conti.isDrawing
               /\ conti.cropStart = -1 /\ contiCropDown(p) /\ Key
CropUp == \E p \in 0..(2 * conti.canvasSize) : contiCropUp(p) /\ Quiet
CropApply == ~conti.isDrawing /\ contiApplyCrop /\ Quiet
CropSaved == contiCropSaved /\ Quiet

NextCrop == Mount \/ Seed \/ CropOpen \/ ContiLoad \/ CropStroke \/ CropStrokeUp
            \/ CropTool \/ CropDown \/ CropUp \/ CropApply \/ CropSaved
            \/ CloseConti

SpecCrop == Init /\ [][NextCrop]_vars

(* ------------- crop drags released outside the canvas ------------------ *)
\* getCoords does not clamp, and the mouse-up listener is on the window: a
\* crop drag may end up to MaxCropOutside half pixels to the right of the
\* canvas. keys counts the crop drags, downs the strokes.
OutCoords == 0..(2 * conti.canvasSize + MaxCropOutside)
OutStroke == \E c \in Pixels :
                /\ downs < MaxOutDowns /\ conti.loaded /\ ~conti.isDrawing
                /\ ~conti.cropSave /\ contiMouseDown(c) /\ Down
OutDown == \E p \in OutCoords :
              /\ keys < MaxOutKeys /\ conti.loaded /\ ~conti.cropSave
              /\ ~conti.isDrawing
              /\ conti.cropStart = -1 /\ contiCropDown(p) /\ Key
OutUp == \E p \in OutCoords : contiCropUp(p) /\ Quiet
OutUndo == conti.loaded /\ ~conti.isDrawing /\ conti.index > 0 /\ contiUndo
           /\ Quiet
OutRedo == /\ conti.loaded /\ ~conti.isDrawing
           /\ conti.index < Len(conti.stack) - 1 /\ contiRedo /\ Quiet

NextOutside == Mount \/ Seed \/ CropOpen \/ ContiLoad \/ OutStroke
               \/ CropStrokeUp \/ CropTool \/ OutDown \/ OutUp \/ CropApply
               \/ CropSaved \/ OutUndo \/ OutRedo \/ CloseConti

SpecOutside == Init /\ [][NextOutside]_vars

\* C36: every snapshot of the storyboard editor's history is as wide as the
\* drawing canvas is at that moment, so undo and redo never paint a snapshot
\* of another size
C36_SnapshotsFitSurface ==
    (conti.open /\ conti.loaded) =>
        \A i \in 1..Len(conti.sizes) : conti.sizes[i] = conti.canvasSize

\* C39: the crop rectangle that was applied lay within the canvas, and the
\* canvas is no wider after the crop than it was before
C39_CropWithinCanvas ==
    last.op = "contiApplyCrop" =>
        /\ last.arg.x + last.arg.width <= 2 * last.arg.canvasSize
        /\ (last.arg.width >= 2 =>
               Rounded(last.arg.width) <= last.arg.canvasSize)

(* ------------------------------ touch input --------------------------- *)
\* touch starts, moves and ends with one and with two fingers; in this
\* specification keys counts the touch points that are down, and a pinch
\* doubles the zoom while it is below MaxTouchZoom
TcTool == \E t \in {"pen", "perspective"} :
             LayerInput /\ keys = 0 /\ setTool(t) /\ Quiet
TcStart == \E n \in 1..2, c \in Pixels :
              /\ downs < MaxTouchDowns /\ LayerInput /\ keys < n
              /\ startDrawing(IF n = 1 THEN "touch1" ELSE "touch2", c)
              /\ downs' = downs + 1 /\ keys' = n
TcMove == \E c \in Pixels :
             /\ keys >= 1 /\ CanvasInput
             /\ (keys >= 2 /\ lastTouchesRef >= 2)
                   => RLess(view.zoom, Rat(MaxTouchZoom, 1))
             /\ handleTouchMove(keys, c, 10, 0, Rat(2, 1), ContainerCentre)
             /\ Quiet
TcEnd == \E n \in 0..1, c \in Pixels :
            /\ n < keys /\ CanvasInput
            /\ stopDrawingBy(n, c)
            /\ keys' = n /\ UNCHANGED downs

NextTouch == Mount \/ Seed \/ TcTool \/ TcStart \/ TcMove \/ TcEnd

SpecTouch == Init /\ [][NextTouch]_vars

\* the step is a touch move with n touch points down
TouchMove(n) ==
    /\ lastTouchesRef' = n /\ keys' = keys /\ downs' = downs
    /\ last'.op \in {"pinch", "draw-move", "handleTouchMove"}
    /\ \E c \in Pixels :
          handleTouchMove(n, c, 10, 0, Rat(2, 1), ContainerCentre)

\* C32: a touch move with two or more touch points down changes the pan and
\* the zoom at most: no sample is appended, no raster and nothing else of
\* the document changes; a touch move appends a sample only with exactly
\* one touch point down and a draw in progress
C32_TouchCountDecides ==
    [][/\ (keys >= 2 /\ TouchMove(keys))
          => /\ pointsRef' = pointsRef
             /\ canvas' = canvas
             /\ view'.rotation = view.rotation
             /\ UNCHANGED <<layerVars, drawVars, vpVars, docVars, meta,
                            canvasSize>>
       /\ (keys >= 1 /\ TouchMove(keys) /\ pointsRef' /= pointsRef)
          => keys = 1 /\ isDrawing]_vars

\* a stroke was begun with one finger and has a sample from a move, a second
\* finger came down, and the two fingers have pinched the view
C32_PinchedDuringStroke ==
    /\ last.op = "pinch" /\ keys = 2
    /\ isDrawing /\ Len(pointsRef) >= 2
    /\ view /= DefaultView

\* C37: a two-finger pinch (a step after which two touch points are down:
\* the second finger's touch start, or a move of the two fingers) pushes no
\* history entry and changes no history index
C37_PinchKeepsHistory == [][keys' = 2 => history' = history]_vars

(* ------------------- cancelling a crop selection ----------------------- *)
\* strokes, then crop drags and applied crops in the storyboard editor, with
\* the Cancel button, Escape and tool switches at any moment
CcOpen == /\ keys = 0 /\ LayerInput
          /\ \E url \in Urls : handleGlobalRefUpload(url)
          /\ Key
CcStroke == \E c \in Pixels :
               /\ downs < MaxCancelDowns /\ keys = 1 /\ conti.loaded
               /\ ~conti.isDrawing /\ contiMouseDown(c) /\ Down
CcStrokeUp == conti.isDrawing /\ contiMouseUp /\ Quiet
CcTool == \E t \in {"pen", "crop"} :
             /\ t /= conti.tool /\ conti.loaded /\ ~conti.isDrawing
             /\ contiSetTool(t) /\ Quiet
CcDown == \E p \in CropCoords :
             /\ keys <= MaxCancelKeys /\ conti.loaded /\ ~conti.isDrawing
             /\ p <= 2 * conti.canvasSize
             /\ conti.cropStart = -1 /\ contiCropDown(p) /\ Key
CcUp == \E p \in 0..(2 * conti.canvasSize) : contiCropUp(p) /\ Quiet
CcApply == ~conti.isDrawing /\ contiApplyCrop /\ Quiet
CcSaved == contiCropSaved /\ Quiet
CcCancel == conti.loaded /\ contiCancelCrop /\ Quiet
CcEscape == conti.loaded /\ contiEscape /\ Quiet

NextCancel == Mount \/ Seed \/ CcOpen \/ ContiLoad \/ CcStroke \/ CcStrokeUp
              \/ CcTool \/ CcDown \/ CcUp \/ CcApply \/ CcSaved \/ CcCancel
              \/ CcEscape

SpecCancel == Init /\ [][NextCancel]_vars

\* a crop rectangle is shown or being dragged
CropSelection == conti.cropRect.present \/ conti.cropStart /= -1

\* the step is one of the three ways of cancelling
CancelStep == \/ last'.op = "contiCancelCrop" /\ contiCancelCrop
              \/ last'.op = "contiEscape" /\ contiEscape
              \/ /\ conti'.tool /= conti.tool
                 /\ \E t \in {"pen", "crop"} : contiSetTool(t)

\* C31: cancelling a crop selection in the storyboard editor by the Cancel
\* button, by Escape or by a switch of tool removes the rectangle and leaves
\* the canvas size, the base raster, the drawing raster and the history
\* stack with its index as they were
C31_CancelKeepsCanvas ==
    [][(CropSelection /\ CancelStep)
       => /\ ~conti'.cropRect.present
          /\ conti'.canvasSize = conti.canvasSize
          /\ conti'.base = conti.base
          /\ conti'.raster = conti.raster
          /\ conti'.stack = conti.stack
          /\ conti'.index = conti.index]_vars

\* Escape has just removed a rectangle that was shown, on a drawing surface
\* that holds a stroke and has been cropped before
C31_SelectionCancelled ==
    /\ last.op = "contiEscape" /\ last.arg.present
    /\ ~conti.cropRect.present /\ conti.cropStart = -1
    /\ conti.raster /= Blank
    /\ Len(conti.stack) > 2

(* ------------------------------ the preview --------------------------- *)
\* one input at a time: the 0 ms timers have run and no drag is under way;
\* the save, emission and host timers fire at any moment
PreviewInput == /\ CanvasInput /\ seedTimers = {} /\ ~mergeTimer.present
                /\ ~resizeDataRef.present /\ ~isDrawing
PreviewKey == PreviewInput /\ keys < MaxPreviewKeys
PvDown == \E c \in Pixels :
             /\ PreviewInput /\ downs < MaxPreviewDowns /\ tool = "pen"
             /\ startDrawing("left", c) /\ Down
PvUp == \E c \in Pixels : CanvasInput /\ isDrawing /\ stopDrawing(c) /\ Quiet
PvUndo == PreviewKey /\ handleUndo /\ Key
PvRedo == PreviewKey /\ handleRedo /\ Key
PvClear == PreviewKey /\ clearActiveLayer /\ Key
PvAddLayer == PreviewKey /\ clock <= MaxClock /\ addSketchLayer /\ Key
PvDeleteLayer == \E id \in Range(layers) : PreviewKey /\ deleteLayer(id) /\ Key
PvMoveLayer == \E id \in Range(layers), direction \in {"up", "down"} :
                  PreviewKey /\ moveLayer(id, direction) /\ Key
PvMergeDown == \E id \in Range(layers) :
                  PreviewKey /\ mergeLayerDown(id) /\ Key
PvVisibility == \E id \in Range(layers) :
                   PreviewKey /\ toggleVisibility(id) /\ Key
PvBlendMode == \E id \in Range(layers), b \in BlendModes :
                  /\ PreviewKey /\ b /= meta[id].blendMode
                  /\ handleBlendModeChange(id, b) /\ Key
PvOpacity == \E id \in Range(layers), o \in Opacities :
                /\ PreviewKey /\ o /= meta[id].opacity
                /\ handleOpacityChange(id, o) /\ Key
PvUpload == /\ PreviewKey
            /\ \E url \in Urls : handleGlobalRefUpload(url)
            /\ Key
PvRefVisibility == /\ PreviewKey /\ globalReference.url /= Null
                   /\ toggleGlobalRefVisibility /\ Key
PvEditSession == /\ PreviewKey
                 /\ \E url \in Urls : url /= hostEditBase /\ hostSetEditBase(url)
                 /\ Key
PvBaseVisibility == /\ PreviewKey /\ editBase /= Null
                    /\ toggleEditBaseVisibility /\ Key
PvResizeDown == \E direction \in Directions :
                   PreviewKey /\ handleResizeMouseDown(direction) /\ Key
PvResizeMove == \E d \in {-900, 0} : resizeMouseMove(d, d) /\ Quiet
PvResizeUp == resizeMouseUp /\ Quiet
PvReload == PreviewKey /\ storage.present /\ reload /\ Key

NextPreview == Mount \/ Seed \/ Restore \/ SaveFire \/ EmitFire \/ HostFire
               \/ PvDown \/ PvUp \/ PvUndo \/ PvRedo \/ PvClear \/ PvAddLayer
               \/ PvDeleteLayer \/ PvMoveLayer \/ PvMergeDown \/ MergeDeferred
               \/ PvVisibility \/ PvBlendMode \/ PvOpacity \/ PvUpload
               \/ CloseConti \/ PvRefVisibility \/ PvEditSession
               \/ LoadEditBase \/ PvBaseVisibility \/ PvResizeDown
               \/ PvResizeMove \/ PvResizeUp \/ PvReload

SpecPreview == Init /\ [][NextPreview]_vars

\* the layer panel and the two reference images alone: every input that
\* decides what the composite holds and in which order
CompositeKey == PreviewInput /\ keys < MaxCompositeKeys
CoAddLayer == CompositeKey /\ clock <= MaxClock /\ addSketchLayer /\ Key
CoMoveLayer == \E id \in Range(layers), direction \in {"up", "down"} :
                  CompositeKey /\ moveLayer(id, direction) /\ Key
CoVisibility == \E id \in Range(layers) :
                   CompositeKey /\ toggleVisibility(id) /\ Key
CoBlendMode == \E id \in Range(layers), b \in BlendModes :
                  /\ CompositeKey /\ b /= meta[id].blendMode
                  /\ handleBlendModeChange(id, b) /\ Key
CoOpacity == \E id \in Range(layers), o \in Opacities :
                /\ CompositeKey /\ o /= meta[id].opacity
                /\ handleOpacityChange(id, o) /\ Key
CoUpload == /\ CompositeKey /\ globalReference.url = Null
            /\ \E url \in Urls : handleGlobalRefUpload(url)
            /\ Key
CoRefVisibility == /\ CompositeKey /\ globalReference.url /= Null
                   /\ toggleGlobalRefVisibility /\ Key
CoEditSession == /\ CompositeKey /\ hostEditBase = Null
                 /\ \E url \in Urls : hostSetEditBase(url)
                 /\ Key
CoBaseVisibility == /\ CompositeKey /\ editBase /= Null
                    /\ toggleEditBaseVisibility /\ Key

\* a resize drag begun once the edit base has loaded repaints the preview
\* at every move
CoResizeDown == /\ CompositeKey /\ ~editPending
                /\ handleResizeMouseDown("br") /\ Key
CoResizeMove == \E d \in {-900, 100} : resizeMouseMove(d, d) /\ Quiet
CoResizeUp == resizeMouseUp /\ Quiet

NextComposite == Mount \/ Seed \/ CoAddLayer \/ CoMoveLayer \/ CoVisibility
                 \/ CoBlendMode \/ CoOpacity \/ CoUpload \/ CloseConti
                 \/ CoRefVisibility \/ CoEditSession \/ LoadEditBase
                 \/ CoBaseVisibility \/ CoResizeDown \/ CoResizeMove
                 \/ CoResizeUp

SpecComposite == Init /\ [][NextComposite]_vars

(* ------------------------------ emission ------------------------------- *)
EmitInput == /\ CanvasInput /\ seedTimers = {} /\ ~loadedStateRef.present
             /\ ~mergeTimer.present /\ ~resizeDataRef.present
EmDown == \E c \in Pixels :
             /\ EmitInput /\ ~isDrawing /\ downs < MaxEmitDowns /\ tool = "pen"
             /\ startDrawing("left", c) /\ Down
EmUp == \E c \in Pixels : CanvasInput /\ isDrawing /\ stopDrawing(c) /\ Quiet
EmAddLayer == /\ EmitInput /\ ~isDrawing /\ keys < MaxEmitKeys
              /\ clock <= MaxClock /\ addSketchLayer /\ Key
EmVisibility == \E id \in Range(layers) :
                   /\ EmitInput /\ ~isDrawing /\ keys < MaxEmitKeys
                   /\ toggleVisibility(id) /\ Key
EmUpload == /\ EmitInput /\ ~isDrawing /\ keys < MaxEmitKeys
            /\ \E url \in Urls : handleGlobalRefUpload(url)
            /\ Key
EmReset == /\ keys < MaxEmitKeys /\ ~initPending /\ ~isDrawing
           /\ handleConfirmReset /\ Key
EmReload == /\ keys < MaxEmitKeys /\ ~initPending /\ ~isDrawing
            /\ storage.present /\ reload /\ Key

NextEmit == Mount \/ Seed \/ Restore \/ SaveFire \/ EmitFire \/ OrphanFire
            \/ HostFire \/ EmDown \/ EmUp \/ EmAddLayer \/ EmVisibility
            \/ EmUpload \/ CloseConti \/ EmReset \/ EmReload

SpecEmit == Init /\ [][NextEmit]_vars

(* ------------------------------ anchor points -------------------------- *)
\* cells a point can be dragged to; the last one lies outside the canvas
PointCoords == Pixels \cup {NumPixels + 2}
PointInput == /\ CanvasInput /\ seedTimers = {} /\ ~loadedStateRef.present
              /\ ~resizeDataRef.present /\ ~draggingPoint.present
              /\ ~isDrawing
PtTool == \E t \in PointTools \cup {"pen"} : PointInput /\ setTool(t) /\ Quiet
PtDown == \E ptr \in {"left"}, c \in Pixels :
             /\ PointInput /\ downs < MaxPointDowns /\ tool \in PointTools
             /\ startDrawing(ptr, c) /\ clock' <= MaxClock + 1 /\ Down
PtUp == \E c \in Pixels : CanvasInput /\ isDrawing /\ stopDrawing(c) /\ Quiet
PtRename == \E id \in Range(layers), n \in Names :
               /\ PointInput /\ keys < MaxPointKeys /\ n /= meta[id].name
               /\ handleLayerNameChange(id, n) /\ Key
PtSelectLayer == \E id \in Range(layers) :
                    /\ PointInput /\ id /= activeLayerId
                    /\ setActiveLayerId(id) /\ Quiet
PtAddLayer == /\ PointInput /\ keys < MaxPointKeys /\ clock <= MaxClock
              /\ addSketchLayer /\ Key
\* the handles of the points of the visible layers lie over the canvas
PtGrab == \E k \in Range(layers) : \E i \in 1..Len(meta[k].points) :
             /\ PointInput /\ keys < MaxPointKeys
             /\ meta[k].isVisible /\ tool /= "point_deleter"
             /\ handlePointMouseDown(k, meta[k].points[i].id) /\ Key
PtDrag == \E c \in PointCoords : dragPoint(c) /\ meta' /= meta /\ Quiet
PtDrop == stopPointDrag /\ Quiet
PtDelete == \E k \in Range(layers) : \E i \in 1..Len(meta[k].points) :
               /\ PointInput /\ meta[k].isVisible /\ tool = "point_deleter"
               /\ deletePoint(meta[k].points[i].id) /\ Quiet
PtResizeDown == \E direction \in {"br"} :
                   /\ PointInput /\ keys < MaxPointKeys /\ tool = "pen"
                   /\ handleResizeMouseDown(direction) /\ Key
PtResizeMove == \E d \in {-900, 100} :
                   /\ resizeMouseMove(d, d)
                   /\ canvasDimensions' /= canvasDimensions /\ Quiet
PtResizeUp == resizeMouseUp /\ Quiet

NextPoints == Mount \/ Seed \/ PtTool \/ PtDown \/ PtUp \/ PtRename
              \/ PtSelectLayer \/ PtAddLayer \/ PtGrab \/ PtDrag \/ PtDrop
              \/ PtDelete \/ PtResizeDown \/ PtResizeMove \/ PtResizeUp

SpecPoints == Init /\ [][NextPoints]_vars

(* --------------------------------- view -------------------------------- *)
ViewIdle == /\ CanvasInput /\ seedTimers = {} /\ ~isDrawing /\ ~isPanning
            /\ ~isScrubbyZooming /\ draggingVPId = Null
ViewKey == CanvasInput /\ seedTimers = {} /\ keys < MaxViewKeys
VwTool == \E t \in {"perspective", "point_placer"} :
             ViewIdle /\ downs >= 1 /\ setTool(t) /\ Quiet
VwDown == \E ptr \in {"left", "middle", "altRight"} :
             /\ ViewIdle /\ downs < MaxViewDowns /\ clock <= MaxClock
             /\ startDrawing(ptr, 1) /\ Down
VwUp == /\ CanvasInput
        /\ isDrawing \/ isPanning \/ isScrubbyZooming \/ draggingVPId /= Null
        /\ stopDrawing(1) /\ Quiet
VwZoomButton == \E direction \in {"in", "out"} :
                   ViewKey /\ handleZoomButtonClick(direction) /\ Key
VwReset == ViewKey /\ view /= DefaultView /\ resetView /\ Key
VwRotate == \E r \in {view.rotation + 15, 0} :
               ViewKey /\ r /= view.rotation /\ setRotation(r) /\ Key
VwWheel == \E altKey, down \in BOOLEAN, anchor \in Anchors :
              /\ ViewKey /\ (altKey => anchor = ContainerCentre)
              /\ handleWheel(altKey, down, anchor) /\ view' /= view /\ Key
\* one scrubby zoom step, taken from a zoom that is a whole number
VwScrub == \E dx \in {-1, 1}, mousePos \in {ContainerCentre} :
              /\ ViewKey /\ view.zoom.d = 1
              /\ scrubbyZoomMove(dx, mousePos) /\ Key
VwPan == \E d \in {-10, 10} : ViewKey /\ panMove(d, 0 - d) /\ Key
\* two fingers land on the canvas at once, before the view is changed and
\* with a tool that takes no snapshot
VwTouch == /\ ViewIdle /\ lastTouchesRef = 0 /\ clock <= MaxClock
           /\ tool \notin DrawTools /\ keys = 0
           /\ startDrawing("touch2", 1) /\ Quiet
VwPinch == \E d \in {10}, zoomFactor \in {Rat(1, 10), Rat(10, 1)} :
              ViewKey /\ pinch(d, d, zoomFactor, ContainerCentre) /\ Key

NextView == Mount \/ Seed \/ VwTool \/ VwDown \/ VwUp \/ VwZoomButton
            \/ VwReset \/ VwRotate \/ VwWheel \/ VwScrub \/ VwPan \/ VwTouch
            \/ VwPinch

SpecView == Init /\ [][NextView]_vars

(* ------------------------- pointer coordinates ------------------------- *)
\* canvas points: a corner, the centre and two points off the centre
CanvasPoints == {[x |-> Rat(0, 1), y |-> Rat(0, 1)],
                 [x |-> Rat(500, 1), y |-> Rat(619, 2)],
                 [x |-> Rat(10, 1), y |-> Rat(3, 1)],
                 [x |-> Rat(700, 1), y |-> Rat(100, 3)]}
CoordKey == CanvasInput /\ seedTimers = {} /\ keys < MaxCoordKeys
CdZoomButton == \E direction \in {"in", "out"} :
                   CoordKey /\ handleZoomButtonClick(direction) /\ Key
CdTouch == /\ CanvasInput /\ seedTimers = {} /\ lastTouchesRef = 0
           /\ clock <= MaxClock /\ startDrawing("touch2", 1) /\ Quiet
CdPinch == \E d \in {-7, 10}, zoomFactor \in {Rat(1, 1), Rat(10, 1)} :
              CoordKey /\ pinch(d, 0 - d, zoomFactor, ContainerCentre) /\ Key
CdRotate == \E r \in Turns :
               CoordKey /\ r /= view.rotation /\ setRotation(r) /\ Key
CdPoint == \E p \in CanvasPoints :
              CanvasInput /\ seedTimers = {} /\ pointerAt(p) /\ Quiet

NextCoords == Mount \/ Seed \/ CdZoomButton \/ CdTouch \/ CdPinch \/ CdRotate
              \/ CdPoint

SpecCoords == Init /\ [][NextCoords]_vars

(* ------------------------ snapping a line to a VP ---------------------- *)
\* vanishing points, starts of a line and places of the cursor, in pixels:
\* vanishing points on and off the line, nearer and further than the
\* threshold, equally far, and at the start itself; one call is explored
\* in a behaviour
SnapPlaces == {<<0, 0>>, <<40, 30>>, <<40, 70>>, <<80, 10>>}
SnapStarts == {<<0, 0>>, <<40, 30>>, <<10, 20>>, <<40, 60>>}
SnapCursors == {<<0, 0>>, <<0, 1>>, <<20, 14>>, <<44, 25>>, <<80, 60>>,
                <<40, 61>>}
At(xy) == [x |-> xy[1], y |-> xy[2]]
VPAt(id, xy) == [id |-> id, x |-> xy[1], y |-> xy[2]]
SnapVPs == {<<>>} \cup {<<VPAt(1, a)>> : a \in SnapPlaces}
           \cup {<<VPAt(1, ab[1]), VPAt(2, ab[2])>> :
                    ab \in {t \in SnapPlaces \X SnapPlaces : t[1] /= t[2]}}
SnapCall == /\ CanvasInput /\ seedTimers = {}
            /\ last.op /= "getSnappedLineEndPoint"
            /\ \E penColor \in {"#000000", "#ef4444"}, vps \in SnapVPs,
                  start \in SnapStarts, current \in SnapCursors :
                  snapLine(penColor, vps, At(start), At(current)) /\ Quiet

NextSnap == Mount \/ Seed \/ SnapCall

SpecSnap == Init /\ [][NextSnap]_vars

(* ----------------------- images that fail to decode ------------------- *)
\* a stroke, style references uploaded, an edit session started by the
\* host and the page loaded again, with images that decode and images that
\* do not; the stored document may hold such an image (left there by
\* another version of the program or by a damaged write)
DecodeKey == keys < MaxDecodeKeys /\ CanvasInput /\ seedTimers = {}
AnyUrls == Urls \cup BadUrls
DcDown == \E c \in Pixels : /\ downs < MaxDecodeDowns /\ CanvasInput
                            /\ seedTimers = {}
                            /\ startDrawing("left", c) /\ Down
DcUpload == \E id \in Range(layers), url \in AnyUrls :
               DecodeKey /\ handleSetteiUpload(id, url) /\ Key
DcEditSession == /\ DecodeKey
                 /\ \E url \in AnyUrls :
                       url /= hostEditBase /\ hostSetEditBase(url)
                 /\ Key
storedWith(doc) ==
    /\ storage.present
    /\ storage' = doc
    /\ UNCHANGED <<layerVars, drawVars, vpVars, docVars, saveTimer, emitTimer,
                   hostVars, initPending, editPending, seedTimers, mergeTimer,
                   editorVars, extVars, last, opPushes, scen>>
DcStored ==
    /\ DecodeKey /\ ~saveTimer
    /\ \E url \in BadUrls :
          \/ storedWith([storage EXCEPT !.globalReference =
                                           [url |-> url, isVisible |-> TRUE]])
          \/ \E k \in Range(storage.layers) :
                storedWith([storage EXCEPT !.meta[k].setteiImages =
                                             <<SetteiImage(url, Null)>>])
    /\ Key
DcReload == DecodeKey /\ storage.present /\ ~saveTimer /\ reload /\ Key

NextDecode == Mount \/ Seed \/ Restore \/ SaveFire \/ DcDown \/ PointerUp
              \/ DcUpload \/ DcEditSession \/ LoadEditBase \/ DcStored
              \/ DcReload

SpecDecode == Init /\ [][NextDecode]_vars

(* ------------------------ Escape during a shape ----------------------- *)
\* lines, ellipses and curves begun on the canvas, Escape pressed at any
\* moment, and the pointer released afterwards
EsTool == \E t \in {"line", "ellipse", "curve", "pen"} :
             LayerInput /\ setTool(t) /\ Quiet
EsDown == \E c \in Pixels :
             /\ downs < MaxEscapeDowns /\ LayerInput
             /\ tool \in {"line", "ellipse", "curve"}
             /\ startDrawing("left", c) /\ Down
EsEscape == /\ keys < MaxEscapeKeys /\ LayerInput
            /\ handleKeyDownEscape /\ Key
EsUp == \E c \in Pixels : LayerInput /\ stopDrawing(c) /\ Quiet

NextEscape == Mount \/ Seed \/ EsTool \/ EsDown \/ EsEscape \/ EsUp

SpecEscape == Init /\ [][NextEscape]_vars

\* what is in progress: a line or an ellipse whose start point is set, or a
\* curve with collected points
ShapeInProgress == \/ lineStartPoint /= Null
                   \/ ellipseStartPoint /= Null
                   \/ curvePoints /= <<>>

\* C30: Escape pressed while a line, an ellipse or a curve is in progress
\* clears the start point and the collected points and changes no raster, and
\* the pointer-up that comes next changes no raster either
C30_EscapeDiscards ==
    [][/\ (last'.op = "handleKeyDown" /\ ShapeInProgress)
          => /\ ~ShapeInProgress'
             /\ canvas' = canvas
       /\ (last.op = "handleKeyDown" /\ last'.op \in {"stopDrawing", "draw"})
          => canvas' = canvas]_vars

\* a line was begun, Escape was pressed, and the pointer was released: the
\* release drew nothing and returned before resetting isDrawing, on a layer
\* that holds paint from an earlier shape
C30_EscapedLineReleased ==
    /\ last.op = "stopDrawing"
    /\ tool = "line" /\ isDrawing /\ lineStartPoint = Null
    /\ activeLayerId /= Null /\ canvas[activeLayerId] /= Blank

(* ------------------------------ curve tool ---------------------------- *)
\* clicks with the curve tool and with the pen selected in between, on the
\* canvas and in the storyboard editor
CvTool == \E t \in {"curve", "pen", "line"} :
             LayerInput /\ ~isDrawing /\ setTool(t) /\ Quiet
CvDown == \E ptr \in {"left", "right"}, c \in Pixels :
             /\ downs < MaxCurveDowns /\ LayerInput /\ tool = "curve"
             /\ startDrawing(ptr, c) /\ Down
CvUpload == /\ LayerInput /\ downs \in {0, MaxCurveDowns}
            /\ \E url \in Urls : handleGlobalRefUpload(url)
            /\ Quiet
CvContiTool == \E t \in {"pen", "curve"} :
                  /\ t /= conti.tool /\ conti.loaded /\ ~conti.isDrawing
                  /\ contiSetTool(t) /\ Quiet
CvContiDown == \E c \in Pixels :
                  /\ keys < MaxCurveKeys /\ conti.loaded
                  /\ contiCurveDown(c) /\ Key

NextCurve == Mount \/ Seed \/ CvTool \/ CvDown \/ CvUpload \/ ContiLoad
             \/ CvContiTool \/ CvContiDown \/ CloseConti

SpecCurve == Init /\ [][NextCurve]_vars

(* ---------------- histories of the layers and of the editor ----------- *)
\* strokes, undo and redo on up to three layers, and in the storyboard
\* editor opened by an upload
HistoryKey == keys < MaxHistoryKeys /\ LayerInput
HsDown == \E c \in Pixels : /\ downs < MaxHistoryDowns /\ LayerInput
                            /\ startDrawing("left", c) /\ Down
\* the pointer is released where it was pressed
HsUp == /\ CanvasInput /\ isDrawing /\ pointsRef /= <<>>
        /\ stopDrawing(pointsRef[1]) /\ Quiet
HsUndo == LayerInput /\ ~isDrawing /\ handleUndo /\ Quiet
HsRedo == LayerInput /\ ~isDrawing /\ handleRedo /\ Quiet
HsAddLayer == clock <= MaxClock /\ HistoryKey /\ addSketchLayer /\ Key
HsSelectLayer == \E id \in Range(layers) :
                    /\ LayerInput /\ ~isDrawing /\ id /= activeLayerId
                    /\ setActiveLayerId(id) /\ Quiet
HsUpload == /\ LayerInput /\ ~isDrawing
            /\ \E url \in Urls : handleGlobalRefUpload(url)
            /\ Quiet
HsContiDown == /\ downs < MaxHistoryDowns /\ conti.loaded /\ ~conti.isDrawing
               /\ contiMouseDown(1) /\ Down
HsContiUndo == ~conti.isDrawing /\ contiUndo /\ Quiet
HsContiRedo == ~conti.isDrawing /\ contiRedo /\ Quiet

NextHistory == Mount \/ Seed \/ HsDown \/ HsUp \/ HsUndo \/ HsRedo
               \/ HsAddLayer \/ HsSelectLayer \/ HsUpload \/ ContiLoad
               \/ HsContiDown \/ ContiUp \/ HsContiUndo \/ HsContiRedo
               \/ CloseConti

SpecHistory == Init /\ [][NextHistory]_vars

(* ------------------ documents stored in an earlier format ------------- *)
\* the stored document holds a layer as an earlier version of the program
\* wrote it: with a characterSettings list of no, one or two settings, with
\* or without a setteiImages list, a points list and a referenceImage; the
\* page is then loaded
LegacyImages == {<<>>, <<SetteiImage(1, Null)>>, <<SetteiImage(1, 1)>>,
                 <<SetteiImage(1, 1), SetteiImage(1, Null)>>} 
                 \cup {<<SetteiImage(url, Null)>> : url \in BadUrls}
Setting(name, images) == [name |-> name, images |-> images]
LegacySettings ==
    {<<>>, <<Setting(<<"hero", 0>>, <<>>), Setting(<<"", 0>>, <<>>)>>}
    \cup {<<Setting(name, images)>> :
             name \in {<<"hero", 0>>, <<"", 0>>}, images \in LegacyImages}
LegacyPoint == [id |-> 1, characterName |-> <<"hero", 0>>, x |-> Rat(50, 1),
                y |-> Rat(50, 1)]
Unless(absent, l, field) == IF absent THEN Drop(l, field) ELSE l
LegacyLayers(l) ==
    {Unless(noImages, Unless(noPoints, With(l, "referenceImage", ref),
                             "points"), "setteiImages") :
        noImages \in BOOLEAN, noPoints \in BOOLEAN, ref \in {Null, 1}}
    \cup {With(With(l, "setteiImages", <<SetteiImage(1, 1)>>), "points",
                <<LegacyPoint>>)}
    \cup {Unless(noImages, Unless(noPoints,
                     With(l, "characterSettings", settings), "points"),
                 "setteiImages") :
           noImages \in BOOLEAN, noPoints \in BOOLEAN,
           settings \in LegacySettings}
LegacyKey == keys < MaxLegacyKeys /\ CanvasInput /\ seedTimers = {}
LgRename == \E id \in Range(layers) :
               /\ LegacyKey /\ handleLayerNameChange(id, <<"layer", 2>>)
               /\ Key
LgStored == /\ LegacyKey /\ ~saveTimer /\ storage.present
            /\ \E k \in Range(storage.layers) :
                  \E l \in LegacyLayers(storage.meta[k]) :
                     storedWith([storage EXCEPT !.meta[k] = l])
            /\ Key
LgReload == LegacyKey /\ storage.present /\ ~saveTimer /\ reload /\ Key

NextLegacy == Mount \/ Seed \/ Restore \/ SaveFire \/ LgRename \/ LgStored
              \/ LgReload

SpecLegacy == Init /\ [][NextLegacy]_vars

(* ----------------------- bounding box of the sketches ------------------ *)
\* two layers, each visible or hidden, each canvas with up to two pixels
\* drawn on; the canvas of the second layer may be missing; one call is
\* explored in a behaviour
BoxPixels == (0..(BoxWidth - 1)) \X (0..(BoxHeight - 1))
BoxRasters == {{}} \cup {{p, q} : p \in BoxPixels, q \in BoxPixels}
BoxLayers == {<<[id |-> 1, isVisible |-> v]>> : v \in BOOLEAN}
             \cup {<<[id |-> 1, isVisible |-> v[1]],
                     [id |-> 2, isVisible |-> v[2]]>> :
                      v \in BOOLEAN \X BOOLEAN}
BoxCall == /\ CanvasInput /\ seedTimers = {}
           /\ last.op /= "getSketchesBoundingBox"
           /\ \E ls \in BoxLayers, a \in BoxRasters, b \in BoxRasters :
                 /\ \/ sketchBoundingBox(ls, <<a, b>>)
                    \/ b = {} /\ sketchBoundingBox(ls, <<a>>)
                 /\ Quiet

NextBox == Mount \/ Seed \/ BoxCall

SpecBox == Init /\ [][NextBox]_vars

(* ---------------------- zoom in both viewports ------------------------ *)
\* zoom steps about the centre of the container, first in the canvas, then
\* in the storyboard editor opened over it; the wheel, with the pointer in
\* the corner of the container, and a scrubby zoom are explored at the
\* limits of the zoom, as the step after the last zoom step
ZoomKey == seedTimers = {} /\ keys < MaxZoomKeys
AtLimit(z) == keys = MaxZoomKeys /\ z \in {MIN_ZOOM, MAX_ZOOM}
ZmButton == \E direction \in {"in", "out"} :
               /\ ZoomKey /\ ViewIdle /\ handleZoomButtonClick(direction)
               /\ Key
ZmWheel == \E down \in BOOLEAN, anchor \in Anchors \ {ContainerCentre} :
              /\ ViewIdle /\ AtLimit(view.zoom)
              /\ handleWheel(FALSE, down, anchor) /\ Key
ZmTouch == /\ ViewIdle /\ lastTouchesRef = 0 /\ clock <= MaxClock
           /\ startDrawing("touch2", 1) /\ Quiet
ZmPinch == \E zoomFactor \in {Rat(0, 1), Rat(10, 1)} :
              /\ ZoomKey /\ ViewIdle
              /\ pinch(0, 0, zoomFactor, ContainerCentre) /\ Quiet
ZmReset == ZoomKey /\ ViewIdle /\ view /= DefaultView /\ resetView /\ Key
ZmScrubDown == /\ ViewIdle /\ AtLimit(view.zoom) /\ clock <= MaxClock
               /\ startDrawing("altRight", 1) /\ Quiet
ZmScrub == \E dx \in {-1, 1} :
              /\ CanvasInput /\ AtLimit(view.zoom)
              /\ scrubbyZoomMove(dx, ContainerCentre) /\ Key
ZmScrubUp == CanvasInput /\ isScrubbyZooming /\ stopDrawing(1) /\ Quiet
ZmOpen == /\ ViewIdle /\ globalReference.url = Null
          /\ \E url \in Urls : handleGlobalRefUpload(url)
          /\ Quiet
ContiIdle == conti.loaded /\ ~conti.isScrubbyZooming
ZmContiButton == \E direction \in {"in", "out"} :
                    /\ ZoomKey /\ ContiIdle /\ contiHandleZoom(direction)
                    /\ Key
ZmContiWheel == \E down \in BOOLEAN, anchor \in Anchors \ {ContainerCentre} :
                   /\ ContiIdle /\ AtLimit(conti.view.zoom)
                   /\ contiHandleWheel(down, anchor) /\ Key
ZmContiReset == /\ ZoomKey /\ ContiIdle /\ conti.view /= DefaultView
                /\ contiResetView /\ Key
ZmContiScrubDown == /\ ContiIdle /\ AtLimit(conti.view.zoom)
                    /\ contiScrubDown /\ Quiet
ZmContiScrub == \E dx \in {-1, 1} :
                   /\ AtLimit(conti.view.zoom)
                   /\ contiScrubMove(dx, ContainerCentre) /\ Key
ZmContiScrubUp == conti.isScrubbyZooming /\ contiMouseUp /\ Quiet

NextZoom == Mount \/ Seed \/ ZmButton \/ ZmWheel \/ ZmTouch \/ ZmPinch
            \/ ZmReset
            \/ ZmScrubDown \/ ZmScrub \/ ZmScrubUp \/ ZmOpen \/ ContiLoad
            \/ ZmContiButton \/ ZmContiWheel \/ ZmContiReset
            \/ ZmContiScrubDown \/ ZmContiScrub \/ ZmContiScrubUp

SpecZoom == Init /\ [][NextZoom]_vars

(* ------------------------------ canvas resize -------------------------- *)
\* a resize drag starts on an idle canvas whose document has been saved;
\* layers are added first, then vanishing points are placed and strokes
\* drawn between drags
ResizeInput == /\ CanvasInput /\ seedTimers = {} /\ ~loadedStateRef.present
               /\ ~resizeDataRef.present /\ ~saveTimer
ResizeDown == \E direction \in Directions :
                 /\ ResizeInput /\ ~isDrawing /\ keys < MaxResizeKeys
                 /\ handleResizeMouseDown(direction) /\ Key
ResizeMove == \E dx \in Drags, dy \in Drags : resizeMouseMove(dx, dy) /\ Quiet
ResizeUp == resizeMouseUp /\ Quiet
ResizeTool == \E t \in {"pen", "perspective"} :
                 t /= tool /\ ResizeInput /\ ~isDrawing /\ setTool(t) /\ Quiet
ResizePointerDown == \E c \in Pixels :
                        /\ downs < MaxResizeDowns /\ ResizeInput /\ ~isDrawing
                        /\ draggingVPId = Null
                        /\ startDrawing("left", c) /\ Down
ResizePointerUp == \E c \in Pixels : ResizeInput /\ stopDrawing(c) /\ Quiet
ResizeAddLayer == /\ ResizeInput /\ ~isDrawing /\ clock <= MaxClock
                  /\ downs = 0 /\ keys = 0 /\ tool = "pen"
                  /\ addSketchLayer /\ Quiet
ResizeReload == /\ ResizeInput /\ ~isDrawing /\ storage.present
                /\ storage.canvasDimensions /= DefaultDims
                /\ last.op = "resizeMouseUp" /\ reload /\ Quiet

ResizeSave == ~resizeDataRef.present /\ saveToStorage /\ Quiet

NextResize == Mount \/ Seed \/ Restore \/ ResizeSave \/ ResizeDown \/ ResizeMove
              \/ ResizeUp \/ ResizeTool \/ ResizePointerDown
              \/ ResizePointerUp \/ ResizeAddLayer \/ ResizeReload

SpecResize == Init /\ [][NextResize]_vars

(* -------------------------------- claims ------------------------------- *)
\* C1: after N draw operations on a layer with a blank seeded history, N
\* undos leave the raster blank and N redos then leave it as it was after
\* the N-th operation
C1_UndoRedoRoundTrip ==
    /\ (scen.ops >= 1 /\ scen.undos = scen.ops /\ scen.redos = 0)
          => canvas[activeLayerId] = Blank
    /\ (scen.ops >= 1 /\ scen.redos = scen.ops)
          => canvas[activeLayerId] = scen.final

C3_HistoryCap ==
    /\ \A id \in DOMAIN history :
          Len(history[id].stack) <= MAX_HISTORY_STATES
    /\ Len(conti.stack) <= CONTI_MAX_HISTORY_STATES
    /\ Len(refEd.stack) <= REF_MAX_HISTORY

\* a layer's stack is full and its blank seed has been evicted
C3_SeedEvicted ==
    \E id \in DOMAIN history :
        /\ Len(history[id].stack) = MAX_HISTORY_STATES
        /\ history[id].stack[1] /= Blank

InRange(stack, index) == 0 <= index /\ index < Len(stack)

EmptyOrInRange(stack, index) ==
    (Len(stack) = 0 /\ index = -1) \/ InRange(stack, index)

\* C4 (as stated): every history stack that exists satisfies
\* 0 <= index < stack.length
C4_IndexInRangeAsStated ==
    /\ \A id \in DOMAIN history : InRange(history[id].stack, history[id].index)
    /\ conti.open => InRange(conti.stack, conti.index)
    /\ refEd.open => InRange(refEd.stack, refEd.index)

\* C4: every history stack that exists is either empty with index -1 (an
\* editor whose image has not loaded yet) or satisfies
\* 0 <= index < stack.length
C4_IndexInRange ==
    /\ \A id \in DOMAIN history :
          EmptyOrInRange(history[id].stack, history[id].index)
    /\ conti.open => EmptyOrInRange(conti.stack, conti.index)
    /\ refEd.open => EmptyOrInRange(refEd.stack, refEd.index)

\* the reference-image editor has a full stack whose first entries have been
\* evicted, and an undo has moved the index below the top
C4_UndoneAfterEviction ==
    /\ refEd.open
    /\ Len(refEd.stack) = REF_MAX_HISTORY
    /\ refEd.stack[1] /= Pixels
    /\ refEd.index < Len(refEd.stack) - 1

\* h2 is h after one push under a cap: the new entry is on top with the
\* index on it, and below it are the entries of h at or below h's index, in
\* order, less the oldest one when they already filled the cap
PushedOnto(h, h2, cap) ==
    LET below == h.index + 1
        e == Len(h2.stack) - 1
    IN /\ Len(h2.stack) >= 1
       /\ h2.index = Len(h2.stack) - 1
       /\ e = IF below >= cap THEN cap - 1 ELSE below
       /\ \A i \in 1..e : h2.stack[i] = h.stack[below - e + i]

\* C38: a push keeps the entries at or below the index, discards those
\* above it and leaves the index on the new top entry, in the layer canvas
\* (the pointer-down of a stroke), in the storyboard editor and in the
\* reference-image editor (their mouse-downs)
C38_PushDiscardsRedo ==
    [][/\ (last'.op = "startDrawing" /\ last'.n = 1
              /\ startDrawing("left", 1))
          => PushedOnto(HistoryOf(history, activeLayerId),
                        HistoryOf(history', activeLayerId),
                        MAX_HISTORY_STATES)
       /\ (conti.loaded /\ contiMouseDown(1))
          => PushedOnto(HistoryState(conti.stack, conti.index),
                        HistoryState(conti'.stack, conti'.index),
                        CONTI_MAX_HISTORY_STATES)
       /\ (refEd.loaded /\ refMouseDown)
          => PushedOnto(HistoryState(refEd.stack, refEd.index),
                        HistoryState(refEd'.stack, refEd'.index),
                        REF_MAX_HISTORY)]_vars

\* in the storyboard editor a stroke has begun after undos on a full stack
\* whose blank first entry had been evicted: the push has cut the stack
\* below the cap
C38_PushedAfterUndo ==
    /\ conti.loaded /\ conti.isDrawing
    /\ ContiDrawn
    /\ Len(conti.stack) < CONTI_MAX_HISTORY_STATES - 1
    /\ conti.index = Len(conti.stack) - 1

\* C5: once initialisation or loading has completed, the layer list holds at
\* least one layer
C5_AtLeastOneLayer ==
    (~initPending /\ ~loadedStateRef.present) => Len(layers) >= 1

\* C6: when mergeDown of B onto A has completed, deferred phase included, B
\* is not in the layer list and A's history has exactly one entry more than
\* before the merge
C6_MergeAddsOneEntry ==
    last.op = "mergeDone" =>
        /\ last.arg \notin Range(layers)
        /\ Len(HistoryOf(history, last.id).stack) = last.n + 1

\* C7: addLayer adds exactly one layer, at the index of the previously
\* active layer plus one, makes it the active layer and keeps the relative
\* order of the other layers
C7_AddLayer ==
    last.op = "addSketchLayer" =>
        /\ Len(layers) = Len(last.layers) + 1
        /\ layers[IndexOf(last.layers, last.active) + 1] = last.id
        /\ activeLayerId = last.id
        /\ Filter(layers, last.id) = last.layers

\* a layer has been added while the active layer was not the top one
C7_AddedInTheMiddle ==
    /\ last.op = "addSketchLayer"
    /\ Len(last.layers) >= 2
    /\ last.active = last.layers[1]

DeleteApplies ==
    /\ last.op = "deleteLayer"
    /\ Len(last.layers) >= 2
    /\ last.id \in Range(last.layers)

\* C8 (as stated): deleteLayer(id) with at least two layers removes the
\* layer and its history; a deleted active layer is replaced by the layer
\* that was immediately below it, or by the new top layer when there was
\* none below; otherwise the active layer is unchanged
C8_DeleteLayerAsStated ==
    DeleteApplies =>
        LET i == IndexOf(last.layers, last.id)
        IN /\ layers = Filter(last.layers, last.id)
           /\ last.id \notin DOMAIN history
           /\ activeLayerId = IF last.active /= last.id THEN last.active
                              ELSE IF i > 1 THEN last.layers[i - 1]
                              ELSE layers[Len(layers)]

\* C8: deleteLayer(id) with at least two layers removes the layer and its
\* history; a deleted active layer is replaced by the layer that was
\* immediately below it, or by the layer that was immediately above it (the
\* new bottom layer) when there was none below; otherwise the active layer
\* is unchanged
C8_DeleteLayer ==
    DeleteApplies =>
        LET i == IndexOf(last.layers, last.id)
        IN /\ layers = Filter(last.layers, last.id)
           /\ last.id \notin DOMAIN history
           /\ activeLayerId = IF last.active /= last.id THEN last.active
                              ELSE IF i > 1 THEN last.layers[i - 1]
                              ELSE last.layers[2]

\* the active bottom layer of three has been deleted
C8_DeletedActiveBottom ==
    /\ DeleteApplies
    /\ Len(last.layers) >= 3
    /\ last.active = last.id
    /\ last.layers[1] = last.id

\* C9: when the document is loaded and no save is pending, the persisted
\* state equals the current document, rasters included
C9_PersistedWhenIdle ==
    (/\ ~saveTimer /\ ~initPending /\ ~loadedStateRef.present
     /\ seedTimers = {} /\ ~isDrawing /\ Len(layers) >= 1)
        => storage = Document

\* C10: there are at most 3 vanishing points
C10_AtMostThreeVPs == Len(vanishingPoints) <= 3


\* C11: every layer of the list has exactly one raster, whose width and
\* height are the current canvas dimensions; this holds after every step of
\* a resize, a resize away from a size and back to it included
C11_RasterPerLayer ==
    /\ \A i \in 1..Len(layers), j \in 1..Len(layers) :
           layers[i] = layers[j] => i = j
    /\ \A k \in Range(layers) :
           /\ k \in DOMAIN canvas
           /\ k \in DOMAIN canvasSize
           /\ canvasSize[k] = canvasDimensions

\* a drag has taken a canvas with two layers away from its size and back
C11_ResizedAndBack ==
    /\ last.op = "resizeMouseMove"
    /\ last.arg.away
    /\ canvasDimensions = resizeDataRef.prev
    /\ Len(layers) = 2
    /\ \A k \in Range(layers) : canvasSize[k] = resizeDataRef.prev

C13_MinimumSize ==
    last.op \in {"resizeMouseMove", "resizeMouseUp"} =>
        /\ canvasDimensions.width >= 200
        /\ canvasDimensions.height >= 200

\* the corner handle has been dragged further in than the minimum on both
\* sides
C13_DraggedBelowMinimum ==
    /\ last.op = "resizeMouseMove"
    /\ resizeDataRef.direction = "br"
    /\ resizeDataRef.prev.width + last.arg.dx < 200
    /\ resizeDataRef.prev.height + last.arg.dy < 200


\* C14: applying a crop with rectangle R in the storyboard editor makes the
\* canvas exactly as wide as R and leaves in the base raster and in the
\* drawing raster the pixels that lay inside R, at their offset from R's
\* edge (stated for R starting on a pixel boundary); a crop whose rectangle
\* is the full canvas leaves the size and both rasters unchanged
C14_CropExact ==
    (last.op = "contiApplyCrop" /\ conti.cropSave) =>
        LET a == last.arg
            Inside(raster) ==
                {c - a.x \div 2 : c \in {b \in raster :
                                            /\ a.x <= 2 * b - 2
                                            /\ 2 * b <= a.x + a.width}}
        IN /\ 2 * conti.canvasSize = a.width
           /\ a.x % 2 = 0 => /\ conti.base = Inside(a.base)
                             /\ conti.raster = Inside(a.raster)
           /\ (a.x = 0 /\ a.width = 2 * a.canvasSize) =>
                  /\ conti.canvasSize = a.canvasSize
                  /\ conti.base = a.base
                  /\ conti.raster = a.raster


\* nothing is left to run: no initialisation, restore, seeding or merge
\* callback is due, and no stroke or resize drag is under way
Quiescent ==
    /\ ~initPending /\ ~editPending /\ ~loadedStateRef.present
    /\ seedTimers = {} /\ ~mergeTimer.present
    /\ ~isDrawing /\ ~resizeDataRef.present

\* C15: in every quiescent state the preview is the composite of the
\* current global reference, the current edit base and the current visible
\* layers with their current rasters
C15_PreviewCurrent ==
    Quiescent =>
        preview = Composite(layers, meta, canvas, globalReference, editBase,
                            editBaseVisible)


\* the visible layers whose canvas is mounted, bottom of the stack first
ShownLayers ==
    SelectSeq(layers, LAMBDA k : k \in DOMAIN canvas /\ meta[k].isVisible)
RefShown == globalReference.url /= Null /\ globalReference.isVisible
BaseShown == editBase /= Null /\ editBaseVisible
UnderLayers == (IF RefShown THEN 1 ELSE 0) + (IF BaseShown THEN 1 ELSE 0)

\* C16: the preview holds, bottom to top, the global reference if it is
\* visible, the edit base if it is visible, then the visible layers in stack
\* order, each with its own opacity and blend mode; hidden layers and hidden
\* references contribute nothing
C16_CompositeOrder ==
    (~initPending /\ seedTimers = {}) =>
        /\ Len(preview) = UnderLayers + Len(ShownLayers)
        /\ RefShown =>
               /\ preview[1].kind = "globalReference"
               /\ preview[1].id = globalReference.url
        /\ BaseShown =>
               /\ preview[UnderLayers].kind = "editBase"
               /\ preview[UnderLayers].id = editBase
        /\ \A i \in 1..Len(ShownLayers) :
               LET k == ShownLayers[i]
                   p == preview[UnderLayers + i]
               IN /\ p.kind = "layer"
                  /\ p.id = k
                  /\ p.raster = canvas[k]
                  /\ p.opacity = meta[k].opacity
                  /\ p.blendMode = meta[k].blendMode

\* both references are shown, a layer is hidden, and two visible layers lie
\* in the stack in the reverse of their order of creation
C16_MixedStack ==
    /\ ~initPending /\ seedTimers = {}
    /\ RefShown /\ BaseShown
    /\ \E k \in Range(layers) : ~meta[k].isVisible
    /\ Len(ShownLayers) = 2
    /\ ShownLayers[1] > ShownLayers[2]


\* the emission timers that are pending: the one of the mounted canvas and
\* those left by canvases that were unmounted
PendingEmissions == (IF emitTimer THEN 1 ELSE 0) + Len(orphanEmit)

\* C17: at any time at most one emission timer is pending
C17_OneEmissionTimer == PendingEmissions <= 1


\* C18: no two anchor points of a layer share a character name; a click of
\* the point placer on a layer that has a point named as the layer moves that
\* point, which keeps its id, and adds no point
C18_OnePointPerName ==
    /\ \A k \in DOMAIN meta :
           \A i, j \in 1..Len(meta[k].points) :
               i /= j => meta[k].points[i].characterName
                             /= meta[k].points[j].characterName
    /\ (/\ last.op = "placePoint"
        /\ \E q \in Range(last.arg.points) : q.characterName = last.arg.name)
           => LET before == last.arg.points
                  after == meta[last.id].points
              IN /\ Len(after) = Len(before)
                 /\ \A i \in 1..Len(before) :
                        /\ after[i].id = before[i].id
                        /\ after[i].characterName = before[i].characterName
                        /\ after[i].radius = before[i].radius
                        /\ before[i].characterName /= last.arg.name
                               => after[i] = before[i]

\* the point placer has moved the point named as the layer, on a layer that
\* holds a second point placed under an earlier name
C18_Relocated ==
    /\ last.op = "placePoint"
    /\ Len(last.arg.points) = 2
    /\ Len(meta[last.id].points) = 2
    /\ meta[last.id].points /= last.arg.points

\* the anchor points of every layer
AnchorPoints == [k \in DOMAIN meta |-> meta[k].points]
\* where a point lies on a canvas of the given width, as a fraction
ResolvedX(q, dims) == Rat(q.x.n * dims.width, q.x.d * 100)
ResolvedY(q, dims) == Rat(q.y.n * dims.height, q.y.d * 100)
Scaled(v, old, new) == Rat(v.n * new, v.d * old)

\* C19: every step of a canvas resize leaves the stored x, y and radius of
\* every anchor point as they were, so that a point lying at (px, py) on the
\* canvas before the step lies at (px * W' / W, py * H' / H) after it
C19_ResizeKeepsPoints ==
    [][(resizeDataRef.present \/ resizeDataRef'.present) =>
           /\ AnchorPoints' = AnchorPoints
           /\ \A k \in DOMAIN meta : \A i \in 1..Len(meta[k].points) :
                  LET q == meta[k].points[i]
                      r == meta'[k].points[i]
                  IN /\ ResolvedX(r, canvasDimensions')
                         = Scaled(ResolvedX(q, canvasDimensions),
                                  canvasDimensions.width,
                                  canvasDimensions'.width)
                     /\ ResolvedY(r, canvasDimensions')
                         = Scaled(ResolvedY(q, canvasDimensions),
                                  canvasDimensions.height,
                                  canvasDimensions'.height)]_vars

\* a resize drag has changed the size of a canvas that holds an anchor point
C19_ResizedWithPoint ==
    /\ last.op = "resizeMouseUp"
    /\ canvasDimensions /= last.arg.prev
    /\ \E k \in DOMAIN meta : Len(meta[k].points) >= 1


ViewOps == {"handleZoomButtonClick", "resetView", "setRotation", "handleWheel",
            "scrubbyZoomMove", "panMove", "pinch"}

\* C20: a step of pan, zoom, rotate or reset-view leaves the rasters, the
\* vanishing points, the anchor points and the canvas dimensions as they
\* were; of the state of the canvas it changes zoom, pan and rotation only
C20_ViewOnly ==
    [][(last'.op \in ViewOps /\ view' /= view) =>
           /\ UNCHANGED <<canvas, canvasSize, vanishingPoints, meta,
                          canvasDimensions>>
           /\ UNCHANGED <<layerVars, drawVars, vpVars, docVars, timerVars,
                          editorVars, preview, draggingPoint, orphanEmit,
                          editBaseVisible>>]_vars

\* the view has been changed over a canvas that holds a stroke, a vanishing
\* point and an anchor point
C20_ViewChangedOverContent ==
    /\ last.op \in ViewOps
    /\ view /= DefaultView
    /\ \E k \in DOMAIN canvas : canvas[k] /= Blank
    /\ Len(vanishingPoints) >= 1
    /\ \E k \in DOMAIN meta : Len(meta[k].points) >= 1

\* C21: in every reachable state the zoom of the canvas and the zoom of the
\* storyboard editor both lie between 0.2 and 8, whatever wheel steps,
\* zoom-button clicks, scrubby-zoom drags, pinches and view resets were made
InZoomRange(z) == ~RLess(z, MIN_ZOOM) /\ ~RLess(MAX_ZOOM, z)

C21_ZoomInRange == InZoomRange(view.zoom) /\ InZoomRange(conti.view.zoom)

\* a pinch has pushed the canvas against the upper limit and zoom-out steps
\* have pushed the storyboard editor against the lower limit
C21_BothLimitsHit ==
    /\ view.zoom = MAX_ZOOM
    /\ conti.loaded /\ conti.view.zoom = MIN_ZOOM

Tolerance(q, pan, zoom, size) ==
    RDiv(RMul(Rat(8, 1),
              RAdd(RAdd(RDiv(RAbs(pan), zoom), RAbs(q)), Rat(size, 2))),
         Rat(Pow2(MantissaBits), 1))
Within(a, b, tolerance) == ~RLess(tolerance, RAbs(RSub(a, b)))

C23_SnappedCollinear ==
    last.op = "getSnappedLineEndPoint" /\ last.arg.result.snappedVp /= Null =>
        LET a == last.arg
            E == a.result.point
        IN \E i \in 1..Len(a.vps) :
              LET V == a.vps[i]
                  D == DistanceSq(V, a.start, a.current)
              IN /\ V.id = a.result.snappedVp
                 /\ \A j \in 1..Len(a.vps) :
                       ~RLess(DistanceSq(a.vps[j], a.start, a.current), D)
                 /\ RLess(D, Rat(Sq(SNAP_THRESHOLD), 1))
                 /\ RSub(RMul(RSub(E.x, Rat(a.start.x, 1)),
                              Rat(V.y - a.start.y, 1)),
                         RMul(RSub(E.y, Rat(a.start.y, 1)),
                              Rat(V.x - a.start.x, 1))) = Rat(0, 1)

\* a line was snapped to the second of two vanishing points and its end
\* point was moved away from the cursor
C23_SnappedToSecond ==
    /\ last.op = "getSnappedLineEndPoint"
    /\ Len(last.arg.vps) = 2
    /\ last.arg.result.snappedVp = 2
    /\ last.arg.result.point /= [x |-> Rat(last.arg.current.x, 1),
                                 y |-> Rat(last.arg.current.y, 1)]

\* C24: getSketchesBoundingBox returns null exactly when no visible layer has
\* a pixel with alpha above 0; otherwise it returns the smallest rectangle
\* that holds every such pixel of every visible layer, whatever is drawn on
\* the hidden layers
VisiblePixels(ls, canvases) ==
    UNION {canvases[ls[i].id] :
              i \in {k \in 1..Len(ls) : ls[k].isVisible
                                         /\ ls[k].id \in DOMAIN canvases}}

C24_MinimalBox ==
    last.op = "getSketchesBoundingBox" =>
        LET r == last.arg.result
            P == VisiblePixels(last.arg.layers, last.arg.canvases)
        IN /\ r.present <=> P /= {}
           /\ r.present =>
                 /\ \A q \in P : /\ r.x <= q[1] /\ q[1] < r.x + r.width
                                  /\ r.y <= q[2] /\ q[2] < r.y + r.height
                 /\ \E q \in P : q[1] = r.x
                 /\ \E q \in P : q[1] = r.x + r.width - 1
                 /\ \E q \in P : q[2] = r.y
                 /\ \E q \in P : q[2] = r.y + r.height - 1

\* the box of two pixels of a visible layer was taken while a hidden layer
\* had a pixel outside that box
C24_HiddenPixelOutside ==
    /\ last.op = "getSketchesBoundingBox"
    /\ Len(last.arg.layers) = 2
    /\ last.arg.layers[1].isVisible /\ ~last.arg.layers[2].isVisible
    /\ last.arg.result = [present |-> TRUE, x |-> 1, y |-> 0, width |-> 2,
                          height |-> 1]
    /\ 2 \in DOMAIN last.arg.canvases
    /\ <<0, 1>> \in last.arg.canvases[2]

\* C25: when an image fails to decode (an uploaded style reference, a new
\* edit base, an image of the stored document being loaded) the failure is
\* caught, and the layers, rasters, histories and reference images are what
\* they were before the operation
C25_DecodeFailureHarmless ==
    last.n = -1 =>
        /\ last.arg.caught
        /\ layers = last.layers
        /\ canvas = last.arg.canvas
        /\ history = last.arg.history
        /\ meta = last.arg.meta
        /\ globalReference = last.arg.globalReference
        /\ editBase = last.arg.editBase

\* C26: loading a stored document whose layers use the characterSettings
\* format yields layers in the multi-reference format: such a layer has a
\* setteiImages list with the images (and masks) of its setting and no
\* characterSettings field, and every loaded layer has a setteiImages list
\* and a points list
Loaded == last.op = "restoreCanvases" /\ last.n = 0
EveryLoadedLayer ==
    \A k \in DOMAIN meta : Has(meta[k], "setteiImages") /\ Has(meta[k], "points")

C26_MigratedAsStated ==
    Loaded =>
        /\ EveryLoadedLayer
        /\ \A k \in DOMAIN meta :
              Has(last.arg[k], "characterSettings") =>
                 /\ ~Has(meta[k], "characterSettings")
                 /\ Len(last.arg[k].characterSettings) > 0 =>
                       meta[k].setteiImages =
                           last.arg[k].characterSettings[1].images

\* C26 as it holds: the layers whose characterSettings list holds a
\* setting are migrated (to the images of the first setting); an empty
\* characterSettings list stays on its layer
C26_Migrated ==
    Loaded =>
        /\ EveryLoadedLayer
        /\ \A k \in DOMAIN meta :
              Migrates(last.arg[k]) =>
                 /\ ~Has(meta[k], "characterSettings")
                 /\ meta[k].setteiImages =
                        last.arg[k].characterSettings[1].images

\* a layer stored with one setting of two images, one of them masked, and
\* with neither a setteiImages nor a points list, has been loaded
C26_LegacyLoaded ==
    /\ Loaded
    /\ \E k \in DOMAIN meta :
          /\ Migrates(last.arg[k])
          /\ ~Has(last.arg[k], "setteiImages") /\ ~Has(last.arg[k], "points")
          /\ meta[k].setteiImages = <<SetteiImage(1, 1), SetteiImage(1, Null)>>
          /\ meta[k].points = <<>>

\* C27: undo and redo change only the index of the history of the active
\* layer and the raster of that layer; the snapshots of the stack are the
\* same before and after (on the canvas and in the storyboard editor)
SameStacks ==
    /\ DOMAIN history' = DOMAIN history
    /\ \A k \in DOMAIN history : history'[k].stack = history[k].stack
OthersKept ==
    /\ DOMAIN history' = DOMAIN history /\ DOMAIN canvas' = DOMAIN canvas
    /\ \A k \in DOMAIN history \ {activeLayerId} : history'[k] = history[k]
    /\ \A k \in DOMAIN canvas \ {activeLayerId} : canvas'[k] = canvas[k]

C27_UndoKeepsStack ==
    [][/\ (handleUndo \/ handleRedo) =>
             /\ SameStacks /\ OthersKept
             /\ UNCHANGED <<layers, activeLayerId, layerCounter, meta,
                            canvasSize, drawVars, vpVars, docVars, editorVars>>
       /\ (contiUndo \/ contiRedo) =>
             /\ conti'.stack = conti.stack
             /\ [conti' EXCEPT !.index = conti.index,
                               !.raster = conti.raster] = conti
             /\ UNCHANGED <<layerVars, drawVars, vpVars, docVars, refEd>>]_vars

\* a stroke of the second layer has been undone, and so has a stroke in the
\* storyboard editor
C27_BothUndone ==
    /\ Len(layers) = 2 /\ activeLayerId = layers[2]
    /\ activeLayerId \in DOMAIN history
    /\ history[activeLayerId].index < Len(history[activeLayerId].stack) - 1
    /\ conti.open /\ conti.loaded
    /\ conti.index < Len(conti.stack) - 1

\* C28: a snapshot pushed, an undo and a redo while layer L is active
\* change the stack, the index and the raster of L only
C28_OtherLayersKept ==
    [][(\/ /\ last'.op = "startDrawing"
              /\ \E ptr \in Pointers, c \in Pixels : startDrawing(ptr, c)
           \/ handleUndo \/ handleRedo) => OthersKept]_vars

\* with two layers that both hold a stroke, an undo on the first one has
\* been followed by a stroke on it
C28_TwoLayersDrawn ==
    /\ Len(layers) = 2 /\ activeLayerId = layers[1]
    /\ last.op = "startDrawing" /\ isDrawing
    /\ \A k \in Range(layers) : k \in DOMAIN history /\ Len(history[k].stack) >= 2

\* C29: with the curve tool 0 to 3 points are collected; clicks 1 to 3
\* append the clicked point and leave the raster of the active layer as it
\* is; the 4th click draws the cubic from click 1 to click 2 with clicks 3
\* and 4 as control points onto the active layer and empties the collection
\* (on the canvas and in the storyboard editor)
C29_FourClicks ==
    [][/\ Len(curvePoints') <= 3 /\ Len(conti'.curvePoints) <= 3
       /\ \A ptr \in {"left", "right", "touch1"}, c \in Pixels :
             (tool = "curve" /\ last'.op \in {"startDrawing", "draw"}
              /\ startDrawing(ptr, c)) =>
                IF Len(curvePoints) < 3
                THEN curvePoints' = Append(curvePoints, c) /\ canvas' = canvas
                ELSE /\ curvePoints' = <<>>
                     /\ OthersKept
                     /\ getActiveContext(layers, activeLayerId, canvas) =>
                           canvas'[activeLayerId] =
                               Paint(canvas[activeLayerId],
                                     CurvePixels([start |-> curvePoints[1],
                                                  end |-> curvePoints[2],
                                                  cp1 |-> curvePoints[3],
                                                  cp2 |-> c]))
       /\ \A c \in Pixels :
             contiCurveDown(c) =>
                IF Len(conti.curvePoints) < 3
                THEN /\ conti'.curvePoints = Append(conti.curvePoints, c)
                     /\ conti'.raster = conti.raster
                ELSE /\ conti'.curvePoints = <<>>
                     /\ conti'.raster =
                           Paint(conti.raster,
                                 CurvePixels([start |-> conti.curvePoints[1],
                                              end |-> conti.curvePoints[2],
                                              cp1 |-> conti.curvePoints[3],
                                              cp2 |-> c]))
                               \cap 1..conti.canvasSize]_vars

\* four clicks have drawn a curve that starts and ends on pixel 1 on the
\* layer, and four more have drawn such a curve in the storyboard editor
C29_CurvesDrawn ==
    /\ downs = MaxCurveDowns /\ keys = MaxCurveKeys
    /\ curvePoints = <<>> /\ activeLayerId \in DOMAIN canvas
    /\ canvas[activeLayerId] = {1}
    /\ conti.open /\ conti.curvePoints = <<>> /\ conti.raster = {1}

=============================================================================
